---- MODULE Spec2Model ----
(***************************************************************************)
(* Smart alias creation of icloud-unlimitedemail-go (v2.3.0).              *)
(*                                                                         *)
(* One invocation of handleSmartCreateEmail: the label prompt, the         *)
(* concurrent fan-out of generateSmartEmail (one goroutine per attempt, a  *)
(* buffered result channel, a WaitGroup and the goroutine that closes the  *)
(* channel), the collection loop, the auto-commit decision, the manual     *)
(* choice of selectEmailManually, the fallback commit and the final save.  *)
(*                                                                         *)
(* generateHME and reserveHME are network calls: their outcome is an input *)
(* chosen by the environment.  evaluateEmailQuality is a pure function of  *)
(* the email and of the weights of the configuration, which do not change  *)
(* during an invocation; it is represented by the table scoreOf, fixed     *)
(* when the invocation starts and ranging over every table Emails->Scores. *)
(***************************************************************************)
EXTENDS Integers, Sequences, FiniteSets, TLC

\* ---------------------------------------------------------------- bounds
\* largest max_regenerate_count of the configurations explored
MaxRegen == 2
\* fan-out used when max_regenerate_count <= 0
DefaultMaxTries == 3

\* addresses generateHME may return
Emails == {"a@icloud.com", "b@icloud.com"}
\* values evaluateEmailQuality may give them
Scores == {0, 60, 85}
\* min_score settings explored
MinScores == {0, 70}
\* value of an unset Go string
NoEmail == ""
\* an address reserveHME may answer with that differs from the one sent
ServerEmail == "srv@icloud.com"
\* labels typed at the prompt
Labels == {"", "work"}

VARIABLES
    cfg,          \* config.EmailQuality and config.SaveGeneratedEmails
    scoreOf,      \* evaluateEmailQuality(., qualityConfig.Weights)
    label,        \* label read by handleSmartCreateEmail
    pc,           \* position of the main goroutine
    maxTries,     \* generateSmartEmail: maxTries
    nextId,       \* generateSmartEmail: loop variable i of the launch loop
    wpc,          \* position of each generation goroutine
    wres,         \* candidateResult each goroutine is about to send
    resultChan,   \* buffered channel contents
    chanClosed,   \* resultChan has been closed
    closeCount,   \* number of close(resultChan) executed
    wg,           \* WaitGroup counter
    cpc,          \* position of the goroutine that waits and closes
    candidates,   \* generateSmartEmail: candidates
    bestEmail,    \* generateSmartEmail: bestEmail
    bestScore,    \* generateSmartEmail: bestScore
    result,       \* *EmailQualityResult returned by generateSmartEmail
    input,        \* line typed at the manual choice prompt
    prompted,     \* the manual choice prompt has been answered
    selectedEmail,\* selectEmailManually: selectedEmail
    finalEmail,   \* handleSmartCreateEmail: finalEmail
    outcome,      \* how the invocation ended
    genCalls,     \* number of generateHME calls made by each attempt
    reserveCalls, \* the reserveHME calls made, in call order
    reserveReturns, \* what each of those calls returned
    savedFile     \* records appended to the saved-emails file

\* largest fan-out of the explored configurations
MaxWorkers == IF MaxRegen > DefaultMaxTries THEN MaxRegen ELSE DefaultMaxTries
Workers == 1..MaxWorkers

\* zero value of *EmailQualityResult (nil)
NilResult == [isNil |-> TRUE]

\* ------------------------------------------------- text typed at a prompt
\* A line is a sequence of one-character strings.
Digits == <<"0", "1", "2", "3", "4", "5", "6", "7", "8", "9">>
DigitChars == {Digits[i] : i \in 1..10}
DigitVal(c) == (CHOOSE i \in 1..10 : Digits[i] = c) - 1

\* unicode.IsSpace on the characters of the model
IsSpace(c) == c \in {" ", "\t"}

\* strings.TrimSpace
RECURSIVE TrimLeft(_)
TrimLeft(s) ==
    IF s # << >> /\ IsSpace(Head(s)) THEN TrimLeft(Tail(s)) ELSE s
RECURSIVE TrimRight(_)
TrimRight(s) ==
    IF s # << >> /\ IsSpace(s[Len(s)])
    THEN TrimRight(SubSeq(s, 1, Len(s) - 1))
    ELSE s
TrimSpace(s) == TrimRight(TrimLeft(s))

\* the ASCII letters
LowerLetters == 
    <<"a", "b", "c", "d", "e", "f", "g", "h", "i", "j", "k", "l", "m",
      "n", "o", "p", "q", "r", "s", "t", "u", "v", "w", "x", "y", "z">>
UpperLetters == 
    <<"A", "B", "C", "D", "E", "F", "G", "H", "I", "J", "K", "L", "M",
      "N", "O", "P", "Q", "R", "S", "T", "U", "V", "W", "X", "Y", "Z">>
LowerSet == {LowerLetters[i] : i \in 1..26}
UpperSet == {UpperLetters[i] : i \in 1..26}
IsLetter(c) == c \in LowerSet \/ c \in UpperSet
IsDigit(c) == c \in DigitChars

\* strings.ToLower
LowerChar(c) ==
    IF c \in UpperSet
    THEN LowerLetters[CHOOSE i \in 1..26 : UpperLetters[i] = c]
    ELSE c
ToLower(s) == [i \in 1..Len(s) |-> LowerChar(s[i])]

\* readInput: the line without its surrounding white space
readInput(line) == TrimSpace(line)

\* strconv.Atoi: an optional sign followed by one or more decimal digits
AtoiBody(s) == IF s # << >> /\ Head(s) \in {"+", "-"} THEN Tail(s) ELSE s
AtoiOk(s) ==
    /\ AtoiBody(s) # << >>
    /\ \A i \in 1..Len(AtoiBody(s)) : AtoiBody(s)[i] \in DigitChars
RECURSIVE DecVal(_)
DecVal(s) ==
    IF s = << >> THEN 0
    ELSE 10 * DecVal(SubSeq(s, 1, Len(s) - 1)) + DigitVal(s[Len(s)])
AtoiVal(s) ==
    IF s # << >> /\ Head(s) = "-" THEN 0 - DecVal(AtoiBody(s))
    ELSE DecVal(AtoiBody(s))

\* the word "auto"
AutoWord == <<"a", "u", "t", "o">>

\* lines typed at the manual choice prompt: nothing, the word auto in two
\* spellings, every id from 0 to one past the largest id, a negative and a
\* signed number, an id between blanks, a number with a leading zero and an
\* unparseable line
NumberLines == {<<Digits[k + 1]>> : k \in 0..(MaxWorkers + 1)}
InputLines ==
    NumberLines \cup
    { << >>, AutoWord, <<"A", "U", "T", "O">>, <<" ", "2", " ">>,
      <<"-", "1">>, <<"+", "1">>, <<"0", "1">>, <<"x">>, <<"1", "x">> }

\* ------------------------------------------------- evaluateEmailQuality
\* An address is a sequence of one-character strings, as a line is.

\* strings.Contains and strings.Count of one character
Contains(s, sub) ==
    \E i \in 0..(Len(s) - Len(sub)) : SubSeq(s, i + 1, i + Len(sub)) = sub
ContainsAny(s, patterns) == \E p \in patterns : Contains(s, p)
CountChar(s, c) == Cardinality({i \in 1..Len(s) : s[i] = c})

\* strings.Split(email, "@"): the part before the first "@" and the part
\* after it; the number of parts is one more than the number of "@"
PartCount(email) == CountChar(email, "@") + 1
FirstAt(email) == CHOOSE i \in 1..Len(email) :
                      email[i] = "@" /\ \A j \in 1..(i - 1) : email[j] # "@"
PrefixOf(email) == SubSeq(email, 1, FirstAt(email) - 1)
DomainOf(email) == SubSeq(email, FirstAt(email) + 1, Len(email))

isOnlyLetters(s) ==
    /\ \A i \in 1..Len(s) : IsLetter(s[i])
    /\ Len(s) > 0
isLettersWithDots(s) ==
    /\ \A i \in 1..Len(s) : IsLetter(s[i]) \/ s[i] = "."
    /\ Len(s) > 0
    /\ Contains(s, <<".">>)
isLettersWithNumbers(s) ==
    /\ \A i \in 1..Len(s) : IsLetter(s[i]) \/ IsDigit(s[i])
    /\ \E i \in 1..Len(s) : IsLetter(s[i])
    /\ \E i \in 1..Len(s) : IsDigit(s[i])
countDigits(s) == Cardinality({i \in 1..Len(s) : IsDigit(s[i])})
countSpecialChars(s) ==
    Cardinality({i \in 1..Len(s) :
                    ~(IsLetter(s[i]) \/ IsDigit(s[i]) \/ s[i] = ".")})

Vowels == {"a", "e", "i", "o", "u"}
VowelCount(s) == Cardinality({i \in 1..Len(s) : LowerChar(s[i]) \in Vowels})
ConsonantCount(s) ==
    Cardinality({i \in 1..Len(s) : IsLetter(s[i]) /\ LowerChar(s[i]) \notin Vowels})

commonPatterns ==
    {
      <<"j", "o", "h", "n">>, <<"s", "m", "i", "t", "h">>, <<"m", "i", "k", "e">>,
      <<"d", "a", "v", "i", "d">>, <<"a", "l", "e", "x">>, <<"c", "h", "r", "i", "s">>,
      <<"s", "a", "r", "a", "h">>, <<"m", "a", "r", "y">>, <<"t", "e", "s", "t">>,
      <<"d", "e", "m", "o">>, <<"u", "s", "e", "r">>, <<"a", "d", "m", "i", "n">>,
      <<"m", "a", "i", "l">>, <<"e", "m", "a", "i", "l">>, <<"w", "o", "r", "k">>,
      <<"h", "o", "m", "e">>, <<"i", "n", "f", "o">>, <<"c", "o", "n", "t", "a", "c", "t">>,
      <<"s", "u", "p", "p", "o", "r", "t">>, <<"h", "e", "l", "l", "o">>, <<"w", "o", "r", "l", "d">>,
      <<"a", "p", "p", "l", "e">>, <<"g", "o", "o", "g", "l", "e">> }

\* a common word is contained, or vowels and consonants are both present
\* with 0.2 <= vowels / consonants <= 2.0
looksLikeRealWords(s) ==
    \/ ContainsAny(ToLower(s), commonPatterns)
    \/ /\ VowelCount(s) > 0
       /\ ConsonantCount(s) > 0
       /\ 5 * VowelCount(s) >= ConsonantCount(s)
       /\ VowelCount(s) <= 2 * ConsonantCount(s)

\* the scan of hasExcessiveRepeating from position i on: the longest run
RECURSIVE MaxRepeat(_, _, _, _)
MaxRepeat(s, i, currentRepeat, maxRepeat) ==
    IF i > Len(s)
    THEN IF currentRepeat > maxRepeat THEN currentRepeat ELSE maxRepeat
    ELSE IF s[i] = s[i - 1]
    THEN MaxRepeat(s, i + 1, currentRepeat + 1, maxRepeat)
    ELSE MaxRepeat(s, i + 1, 1,
                   IF currentRepeat > maxRepeat THEN currentRepeat ELSE maxRepeat)
hasExcessiveRepeating(s) ==
    IF Len(s) < 2 THEN FALSE ELSE MaxRepeat(s, 2, 1, 0) >= 3

randomPatterns ==
    {
      <<"x", "y", "z">>, <<"a", "b", "c">>, <<"1", "2", "3">>,
      <<"q", "w", "e">>, <<"a", "s", "d">>, <<"z", "x", "c">> }

\* changes / (len - 1) > 0.8, or one of the fixed substrings
Changes(s) == Cardinality({i \in 2..Len(s) : s[i] # s[i - 1]})
looksRandom(s) ==
    IF Len(s) < 4 THEN FALSE
    ELSE \/ 5 * Changes(s) > 4 * (Len(s) - 1)
         \/ ContainsAny(ToLower(s), randomPatterns)

\* 0.25 <= vowels / consonants <= 1.5
hasGoodVowelConsonantRatio(s) ==
    /\ VowelCount(s) # 0
    /\ ConsonantCount(s) # 0
    /\ 4 * VowelCount(s) >= ConsonantCount(s)
    /\ 2 * VowelCount(s) <= 3 * ConsonantCount(s)

tempPatterns ==
    {
      <<"t", "e", "m", "p">>, <<"t", "m", "p">>, <<"t", "e", "s", "t">>,
      <<"f", "a", "k", "e">>, <<"d", "u", "m", "m", "y">>, <<"t", "h", "r", "o", "w">>,
      <<"d", "i", "s", "p", "o", "s", "a", "b", "l", "e">>, <<"1", "0", "m", "i", "n">>, <<"g", "u", "e", "r", "r", "i", "l", "l", "a">>,
      <<"m", "a", "i", "l", "i", "n", "a", "t", "o", "r">>, <<"t", "e", "m", "p", "m", "a", "i", "l">>, <<"y", "o", "p", "m", "a", "i", "l">>,
      <<"r", "a", "n", "d", "o", "m">>, <<"g", "e", "n", "e", "r", "a", "t", "e", "d">>, <<"a", "u", "t", "o">>,
      <<"s", "p", "a", "m">>, <<"j", "u", "n", "k">> }

\* a keyword, or digits / len > 0.6 on a prefix of six characters or more
looksLikeTemporaryEmail(prefix) ==
    \/ ContainsAny(ToLower(prefix), tempPatterns)
    \/ /\ Len(prefix) >= 6
       /\ 5 * countDigits(prefix) > 3 * Len(prefix)

infinitePatterns ==
    {
      <<"u", "n", "l", "i", "m", "i", "t", "e", "d">>, <<"i", "n", "f", "i", "n", "i", "t", "e">>, <<"f", "o", "r", "e", "v", "e", "r">>,
      <<"n", "o", "r", "e", "p", "l", "y">>, <<"d", "o", "n", "o", "t", "r", "e", "p", "l", "y">>, <<"p", "l", "u", "s">>,
      <<"a", "l", "i", "a", "s">>, <<"f", "o", "r", "w", "a", "r", "d">>, <<"r", "e", "d", "i", "r", "e", "c", "t">> }

hasInfiniteEmailPattern(prefix) ==
    \/ Contains(prefix, <<"+">>)
    \/ ContainsAny(ToLower(prefix), infinitePatterns)

\* clamp to 0..100
Clamp(score) == IF score > 100 THEN 100 ELSE IF score < 0 THEN 0 ELSE score

\* variant: a dotted prefix of 15 characters is outside the best range
evaluatePrefixStructure_ShortDotted(prefix) ==
    IF prefix = << >> THEN 0
    ELSE IF isOnlyLetters(prefix)
    THEN IF Len(prefix) >= 4 /\ Len(prefix) <= 12 THEN 95 ELSE 85
    ELSE IF isLettersWithDots(prefix)
    THEN IF CountChar(prefix, ".") = 1 /\ Len(prefix) >= 5 /\ Len(prefix) < 15
         THEN 80
         ELSE IF CountChar(prefix, ".") <= 2 THEN 70 ELSE 50
    ELSE IF isLettersWithNumbers(prefix)
    THEN IF countDigits(prefix) <= 4 /\ Len(prefix) >= 4 /\ Len(prefix) <= 15
         THEN 65
         ELSE 55
    ELSE IF Contains(prefix, <<"_">>) \/ Contains(prefix, <<"-">>)
    THEN IF CountChar(prefix, "_") + CountChar(prefix, "-") = 1 THEN 45 ELSE 25
    ELSE 20

evaluatePrefixStructure(prefix) ==
    IF prefix = << >> THEN 0
    ELSE IF isOnlyLetters(prefix)
    THEN IF Len(prefix) >= 4 /\ Len(prefix) <= 12 THEN 95 ELSE 85
    ELSE IF isLettersWithDots(prefix)
    THEN IF CountChar(prefix, ".") = 1 /\ Len(prefix) >= 5 /\ Len(prefix) <= 15
         THEN 80
         ELSE IF CountChar(prefix, ".") <= 2 THEN 70 ELSE 50
    ELSE IF isLettersWithNumbers(prefix)
    THEN IF countDigits(prefix) <= 4 /\ Len(prefix) >= 4 /\ Len(prefix) <= 15
         THEN 65
         ELSE 55
    ELSE IF Contains(prefix, <<"_">>) \/ Contains(prefix, <<"-">>)
    THEN IF CountChar(prefix, "_") + CountChar(prefix, "-") = 1 THEN 45 ELSE 25
    ELSE 20

\* variant: the ideal range has no lower limit
evaluateLength_NoLowerLimit(prefix) ==
    LET length == Len(prefix) IN
    IF length <= 10 THEN 95
    ELSE IF length >= 11 /\ length <= 12 THEN 75
    ELSE IF length >= 13 /\ length <= 15 THEN 55
    ELSE 30

evaluateLength(prefix) ==
    LET length == Len(prefix) IN
    IF length >= 6 /\ length <= 10 THEN 95
    ELSE IF (length >= 4 /\ length <= 5) \/ (length >= 11 /\ length <= 12) THEN 75
    ELSE IF length = 3 \/ (length >= 13 /\ length <= 15) THEN 55
    ELSE IF length <= 2 THEN 10
    ELSE IF length >= 16 THEN 30
    ELSE 40

\* variant: the result is not clamped
evaluateReadability_NoClamp(prefix) ==
    IF prefix = << >> THEN 0
    ELSE 50 + (IF looksLikeRealWords(prefix) THEN 30 ELSE 0)
            - (IF hasExcessiveRepeating(prefix) THEN 25 ELSE 0)
            - (IF looksRandom(prefix) THEN 30 ELSE 0)
            + (IF hasGoodVowelConsonantRatio(prefix) THEN 15 ELSE 0)

evaluateReadability(prefix) ==
    IF prefix = << >> THEN 0
    ELSE Clamp(50 + (IF looksLikeRealWords(prefix) THEN 30 ELSE 0)
                  - (IF hasExcessiveRepeating(prefix) THEN 25 ELSE 0)
                  - (IF looksRandom(prefix) THEN 30 ELSE 0)
                  + (IF hasGoodVowelConsonantRatio(prefix) THEN 15 ELSE 0))

DomainBonus(domain) ==
    IF domain = <<"i", "c", "l", "o", "u", "d", ".", "c", "o", "m">> THEN 25
    ELSE IF domain = <<"g", "m", "a", "i", "l", ".", "c", "o", "m">> THEN 30
    ELSE IF domain = <<"o", "u", "t", "l", "o", "o", "k", ".", "c", "o", "m">>
            \/ domain = <<"h", "o", "t", "m", "a", "i", "l", ".", "c", "o", "m">> THEN 20
    ELSE 10

evaluateSecurity(prefix, domain) ==
    Clamp(50 + DomainBonus(domain)
             - (IF looksLikeTemporaryEmail(prefix) THEN 30 ELSE 0)
             - (IF hasInfiniteEmailPattern(prefix) THEN 25 ELSE 0)
             - (IF countSpecialChars(prefix) > 2 THEN 20 ELSE 0))

\* ScoreWeights
Weights(ps, ln, rd, sc) ==
    [PrefixStructure |-> ps, Length |-> ln, Readability |-> rd, Security |-> sc]

\* the four sub-scores of a two-part address
SubScores(email) ==
    [PrefixStructure |-> evaluatePrefixStructure(PrefixOf(email)),
     Length |-> evaluateLength(PrefixOf(email)),
     Readability |-> evaluateReadability(PrefixOf(email)),
     Security |-> evaluateSecurity(PrefixOf(email), DomainOf(email))]

Dimensions == {"PrefixStructure", "Length", "Readability", "Security"}
RECURSIVE SumOver(_, _)
SumOver(f, dims) ==
    IF dims = {} THEN 0
    ELSE LET d == CHOOSE d \in dims : TRUE IN f[d] + SumOver(f, dims \ {d})

\* variant: the weights are taken to add up to 100
evaluateEmailQuality_Percent(email, weights) ==
    IF email = << >> THEN 0
    ELSE IF PartCount(email) # 2 THEN 0
    ELSE LET sub == SubScores(email)
             used == {d \in Dimensions : weights[d] > 0}
             totalScore == SumOver([d \in Dimensions |-> sub[d] * weights[d]], used)
             totalWeight == SumOver(weights, used)
         IN IF totalWeight = 0 THEN 0 ELSE Clamp(totalScore \div 100)

\* the weighted sum of the sub-scores whose weight is positive, divided by
\* the sum of those weights, truncated and clamped
evaluateEmailQuality(email, weights) ==
    IF email = << >> THEN 0
    ELSE IF PartCount(email) # 2 THEN 0
    ELSE LET sub == SubScores(email)
             used == {d \in Dimensions : weights[d] > 0}
             totalScore == SumOver([d \in Dimensions |-> sub[d] * weights[d]], used)
             totalWeight == SumOver(weights, used)
         IN IF totalWeight = 0 THEN 0 ELSE Clamp(totalScore \div totalWeight)

\* ------------------------------------------------ a scoring call, state
VARIABLES
    qEmail,       \* evaluateEmailQuality: email
    qWeights,     \* evaluateEmailQuality: weights
    qpc,          \* position of the scoring call
    qSub,         \* the four sub-scores of the address
    qScore        \* value returned by evaluateEmailQuality

scorerVars == << qEmail, qWeights, qpc, qSub, qScore >>

JohnSmith == <<"j", "o", "h", "n", "s", "m", "i", "t", "h", "@", "i", "c", "l", "o", "u", "d", ".", "c", "o", "m">>
AAtB == <<"a", "@", "b">>
Kettles == 
    <<"k", "e", "t", "t", "l", "e", "s", ".", "d", "o", "l", "t", "i", "s", "h", "@", "i", "c", "l", "o", "u", "d", ".", "c", "o", "m">>

\* addresses scored: the two of the comparison, the end-to-end one, an empty
\* one, one without "@", one with two, one with an empty local part, and one
\* or more for each branch of the four sub-scores, among them a prefix of ten
\* characters with six digits and two prefixes of three characters
EmailPool ==
    {
      <<"j", "o", "h", "n", "s", "m", "i", "t", "h", "@", "i", "c", "l", "o", "u", "d", ".", "c", "o", "m">>,
      <<"a", "@", "b">>,
      <<"k", "e", "t", "t", "l", "e", "s", ".", "d", "o", "l", "t", "i", "s", "h", "@", "i", "c", "l", "o", "u", "d", ".", "c", "o", "m">>,
      << >>,
      <<"n", "o", "a", "t", "s", "i", "g", "n">>,
      <<"a", "@", "b", "@", "c">>,
      <<"@", "i", "c", "l", "o", "u", "d", ".", "c", "o", "m">>,
      <<"j", "o", "h", "n", ".", "s", "m", "i", "t", "h", "@", "g", "m", "a", "i", "l", ".", "c", "o", "m">>,
      <<"a", "b", "c", "1", "2", "3", "@", "o", "u", "t", "l", "o", "o", "k", ".", "c", "o", "m">>,
      <<"x", "_", "y", "-", "z", "@", "h", "o", "t", "m", "a", "i", "l", ".", "c", "o", "m">>,
      <<"a", "+", "b", "@", "i", "c", "l", "o", "u", "d", ".", "c", "o", "m">>,
      <<"a", "a", "a", "@", "i", "c", "l", "o", "u", "d", ".", "c", "o", "m">>,
      <<"1", "2", "3", "4", "5", "6", "7", "@", "i", "c", "l", "o", "u", "d", ".", "c", "o", "m">>,
      <<"1", "1", "1", "1", "2", "3", "@", "i", "c", "l", "o", "u", "d", ".", "c", "o", "m">>,
      <<"t", "e", "m", "p", "m", "a", "i", "l", "9", "9", "@", "i", "c", "l", "o", "u", "d", ".", "c", "o", "m">>,
      <<"a", "v", "e", "r", "y", "v", "e", "r", "y", "v", "e", "r", "y", "l", "o", "n", "g", "p", "r", "e", "f", "i", "x", "@", "i", "c", "l", "o", "u", "d", ".", "c", "o", "m">>,
      <<"a", ".", "b", ".", "c", ".", "d", "@", "i", "c", "l", "o", "u", "d", ".", "c", "o", "m">>,
      <<"t", "m", "p", "+", "a", "_", "b", "-", "c", "@", "x", ".", "o", "r", "g">>,
      <<"u", "n", "l", "i", "m", "i", "t", "e", "d", ".", "a", "l", "i", "a", "s", "@", "i", "c", "l", "o", "u", "d", ".", "c", "o", "m">>,
      <<"J", "o", "h", "n", "S", "m", "i", "t", "h", "@", "I", "C", "L", "O", "U", "D", ".", "C", "O", "M">>,
      <<"b", "c", "d", "f", "g", "@", "i", "c", "l", "o", "u", "d", ".", "c", "o", "m">>,
      <<"q", "7", "@", "i", "c", "l", "o", "u", "d", ".", "c", "o", "m">>,
      <<"a", "b", "1", "2", "3", "4", "5", "6", "c", "d", "@", "i", "c", "l", "o", "u", "d", ".", "c", "o", "m">>,
      <<"a", "b", "c", "@", "i", "c", "l", "o", "u", "d", ".", "c", "o", "m">>,
      <<"1", "2", "3", "@", "i", "c", "l", "o", "u", "d", ".", "c", "o", "m">> }

\* weights explored for each dimension
WeightValues == {0, 15, 20, 25, 40, 100}
WeightSets ==
    {Weights(ps, ln, rd, sc) :
        ps \in WeightValues, ln \in WeightValues,
        rd \in WeightValues, sc \in WeightValues}

NoSubScores == Weights(0, 0, 0, 0)

ScorerIdle ==
    /\ qEmail = << >>
    /\ qWeights = Weights(0, 0, 0, 0)
    /\ qpc = "idle"
    /\ qSub = NoSubScores
    /\ qScore = 0

\* --------------------------------------------- configuration file, state
VARIABLES
    fileJSON,     \* content of config.json
    loaded,       \* *Config returned by LoadConfig
    lpc           \* position of the configuration manager

configVars == << fileJSON, loaded, lpc >>

\* EmailQualityConfig, the options the selection and the scoring read
Quality(auto, min, tries, manual, weights) ==
    [AutoSelect |-> auto, MinScore |-> min, MaxRegenerateCount |-> tries,
     AllowManual |-> manual, Weights |-> weights]

\* the zero value of EmailQualityConfig
ZeroQuality == Quality(FALSE, 0, 0, FALSE, Weights(0, 0, 0, 0))

\* resetToDefaults
DefaultQuality == Quality(FALSE, 70, 3, TRUE, Weights(40, 20, 25, 15))

\* A key of config.json is the empty set when the file does not have it and
\* the set of its value when it does.
Absent == {}
KeyValue(key, zero) == IF key = Absent THEN zero ELSE CHOOSE v \in key : TRUE

\* the email_quality object of a file without any of its keys
NoQualityKeys ==
    [auto_select |-> Absent, min_score |-> Absent,
     max_regenerate_count |-> Absent, allow_manual |-> Absent,
     weights |-> [prefix_structure |-> Absent, length |-> Absent,
                  readability |-> Absent, security |-> Absent]]

\* values written in the files explored
FileBools == {Absent, {TRUE}, {FALSE}}
FileMinScores == {Absent, {0}, {50}}
FileTries == {Absent, {0}, {5}}
FileWeights == {Absent, {0}, {30}}

QualityObjects ==
    [auto_select : FileBools, min_score : FileMinScores,
     max_regenerate_count : FileTries, allow_manual : FileBools,
     weights : [prefix_structure : FileWeights, length : FileWeights,
                readability : FileWeights, security : FileWeights]]

\* config.json: unreadable, not JSON, or an object
ConfigFiles ==
    { [state |-> "unreadable", email_quality |-> NoQualityKeys],
      [state |-> "malformed", email_quality |-> NoQualityKeys] } \cup
    { [state |-> "ok", email_quality |-> q] : q \in QualityObjects }

\* json.Unmarshal into a zero Config: a key that is absent leaves the zero
\* value of its field
Unmarshal(q) ==
    Quality(KeyValue(q.auto_select, FALSE),
            KeyValue(q.min_score, 0),
            KeyValue(q.max_regenerate_count, 0),
            KeyValue(q.allow_manual, FALSE),
            Weights(KeyValue(q.weights.prefix_structure, 0),
                    KeyValue(q.weights.length, 0),
                    KeyValue(q.weights.readability, 0),
                    KeyValue(q.weights.security, 0)))

\* json.MarshalIndent: every field is written
Marshal(c) ==
    [auto_select |-> {c.AutoSelect}, min_score |-> {c.MinScore},
     max_regenerate_count |-> {c.MaxRegenerateCount},
     allow_manual |-> {c.AllowManual},
     weights |-> [prefix_structure |-> {c.Weights.PrefixStructure},
                  length |-> {c.Weights.Length},
                  readability |-> {c.Weights.Readability},
                  security |-> {c.Weights.Security}]]

\* ConfigManager.setDefaults, the email_quality part: a field equal to zero
\* gets its default; the booleans are left as they are
setDefaults(c) ==
    Quality(c.AutoSelect,
            IF c.MinScore = 0 THEN 70 ELSE c.MinScore,
            IF c.MaxRegenerateCount = 0 THEN 3 ELSE c.MaxRegenerateCount,
            c.AllowManual,
            Weights(IF c.Weights.PrefixStructure = 0 THEN 40 ELSE c.Weights.PrefixStructure,
                    IF c.Weights.Length = 0 THEN 20 ELSE c.Weights.Length,
                    IF c.Weights.Readability = 0 THEN 25 ELSE c.Weights.Readability,
                    IF c.Weights.Security = 0 THEN 15 ELSE c.Weights.Security))

\* *Config: nil, or a configuration
NilConfig == [isNil |-> TRUE, EmailQuality |-> ZeroQuality]
LoadedConfig(q) == [isNil |-> FALSE, EmailQuality |-> q]

ConfigIdle ==
    /\ fileJSON = [state |-> "unreadable", email_quality |-> NoQualityKeys]
    /\ loaded = NilConfig
    /\ lpc = "idle"

\* ------------------------------------------------------ withSpinner, state
VARIABLES
    spMain,       \* position of withSpinner
    spGo,         \* position of the animation goroutine
    spClosed,     \* number of close(done) executed
    spWg,         \* WaitGroup counter
    spIdx,        \* idx of the animation goroutine
    spFrame,      \* frame last printed
    spAction,     \* how the action ended
    spErr         \* named result err

spinnerVars == << spMain, spGo, spClosed, spWg, spIdx, spFrame, spAction, spErr >>

SpinnerIdle ==
    /\ spMain = "idle"
    /\ spGo = "unborn"
    /\ spClosed = 0
    /\ spWg = 0
    /\ spIdx = 0
    /\ spFrame = 0
    /\ spAction = "none"
    /\ spErr = "nil"

\* callbacks of the debounce timer that can be running at once: Stop does
\* not wait for a callback that has started
Callbacks == {1, 2}

\* ------------------------------------------------ process lock, state
VARIABLES
    lockFile,        \* .icloud_smart.lock: 0 when absent, else the pid written
    ppc,             \* position of each instance of the program
    isLocked,        \* ProcessSafetyManager.isLocked of each instance
    acquired,        \* instances whose Lock() has returned nil
    reloadAttempts,  \* reloadAttempts of each instance's config watcher
    sigpc,           \* position of each instance's signal goroutine
    xpc              \* position of each running callback of each instance's
                     \* watcher timer whose LoadConfig failed

processVars == << lockFile, ppc, isLocked, acquired, reloadAttempts, sigpc, xpc >>

\* the instances started in the directory; the pid of instance p is p
Procs == {1, 2}

\* no instance has been started and there is no lock file
ProcessStart ==
    /\ lockFile = 0
    /\ ppc = [p \in Procs |-> "off"]
    /\ isLocked = [p \in Procs |-> FALSE]
    /\ acquired = [p \in Procs |-> FALSE]
    /\ reloadAttempts = [p \in Procs |-> 0]
    /\ sigpc = [p \in Procs |-> "wait"]
    /\ xpc = [p \in Procs |-> [c \in Callbacks |-> "idle"]]

ProcessIdle == ProcessStart

\* ------------------------------------- main loop and configuration, state
VARIABLES
    diskConfig,      \* the options config.json holds
    mainConfig,      \* the Config the variable config of main points to
    globalConfig,    \* the Config the variable globalConfig points to
    sameObject,      \* config and globalConfig point to the same Config
    menuShows9,      \* the last showMainMenu printed entry [9]
    ranTest,         \* what the choice of 9 did in this round of the main loop
    mpc,             \* position of the main loop
    rpc,             \* position of each running callback of the watcher's timer
    newConfig        \* the Config each callback has loaded

menuVars == << diskConfig, mainConfig, globalConfig, sameObject, menuShows9,
               ranTest, mpc, rpc, newConfig >>

\* the options of Config followed here
MenuConfig(dev, min) == [DeveloperMode |-> dev, MinScore |-> min]
ZeroMenuConfig == MenuConfig(FALSE, 0)

MenuIdle ==
    /\ diskConfig = ZeroMenuConfig
    /\ mainConfig = ZeroMenuConfig
    /\ globalConfig = ZeroMenuConfig
    /\ sameObject = FALSE
    /\ menuShows9 = FALSE
    /\ ranTest = "none"
    /\ mpc = "off"
    /\ rpc = [c \in Callbacks |-> "idle"]
    /\ newConfig = [c \in Callbacks |-> ZeroMenuConfig]

\* ---------------------------------------------- batch creation, state
VARIABLES
    bCount,          \* batchGenerate: count
    bMaxConc,        \* config.MaxConcurrency
    bpc,             \* position of batchGenerate / batchGenerateConcurrent
    bLimit,          \* concurrency
    bI,              \* loop variable i
    bwpc,            \* position of the goroutine of each index
    bwres,           \* what createHME returned to each goroutine
    bSem,            \* number of tokens in the semaphore channel
    bChan,           \* resultChan
    bClosed,         \* number of close(resultChan) executed
    bWg,             \* wg counter
    bcpc,            \* position of the closing goroutine
    bResults,        \* results, in the order received
    bEmails,         \* emails returned
    bErrs,           \* errors returned
    bCalls,          \* createHME calls made, by label index, in the order made
    bSaved           \* label indexes whose email saveEmailToFile has written

batchVars == << bCount, bMaxConc, bpc, bLimit, bI, bwpc, bwres, bSem, bChan,
                bClosed, bWg, bcpc, bResults, bEmails, bErrs, bCalls,
                bSaved >>

\* largest count explored
MaxCount == 3
\* goroutine indexes (the code counts from 0; index k here is its k - 1)
BatchIndexes == 1..MaxCount

\* result of one item: the label index, and the email or the error
BatchResult(index, ok) == [index |-> index, ok |-> ok]
NoBatchResult == BatchResult(0, FALSE)

BatchStart ==
    /\ bpc = "start"
    /\ bLimit = 0
    /\ bI = 0
    /\ bwpc = [k \in BatchIndexes |-> "unborn"]
    /\ bwres = [k \in BatchIndexes |-> NoBatchResult]
    /\ bSem = 0
    /\ bChan = << >>
    /\ bClosed = 0
    /\ bWg = 0
    /\ bcpc = "unborn"
    /\ bResults = << >>
    /\ bEmails = << >>
    /\ bErrs = << >>
    /\ bCalls = << >>
    /\ bSaved = << >>

BatchIdle ==
    /\ bCount = 0
    /\ bMaxConc = 0
    /\ BatchStart

\* the variables of these three parts
moreVars == << processVars, menuVars, batchVars >>
MoreIdle == ProcessIdle /\ MenuIdle /\ BatchIdle

\* the variables of the other parts of the program
otherVars == << scorerVars, configVars, spinnerVars, moreVars >>

\* the variables of one smart creation
flowVars == << cfg, scoreOf, label, pc, maxTries, nextId, wpc, wres, resultChan,
           chanClosed, closeCount, wg, cpc, candidates, bestEmail, bestScore,
           result, input, prompted, selectedEmail, finalEmail, outcome,
           genCalls, reserveCalls, reserveReturns, savedFile >>

\* all variables
vars == << flowVars, otherVars >>

\* ------------------------------------------------------------ data types
\* EmailCandidate
Candidate(email, score, id) == [Email |-> email, Score |-> score, ID |-> id]
ZeroCandidate == Candidate(NoEmail, 0, 0)

\* candidateResult of generateSmartEmail
ErrResult == [err |-> TRUE, candidate |-> ZeroCandidate]
OkResult(c) == [err |-> FALSE, candidate |-> c]

\* EmailQualityResult
QualityResult(cands, email, score, auto) ==
    [isNil |-> FALSE, Candidates |-> cands, BestEmail |-> email,
     BestScore |-> score, TotalTries |-> Len(cands), AutoSelected |-> auto]

\* answers of generateHME: an error, or one of the addresses the provider
\* hands out, which are the addresses scoreOf has a score for
GenerateReplies ==
    {[ok |-> FALSE, hme |-> NoEmail]} \cup
    {[ok |-> TRUE, hme |-> e] : e \in DOMAIN scoreOf}

\* answers of reserveHME(hme, label): an error, or the address the server
\* reports, which is the one sent or another one
ReserveReplies(hme) ==
    { [ok |-> FALSE, hme |-> NoEmail],
      [ok |-> TRUE, hme |-> hme],
      [ok |-> TRUE, hme |-> ServerEmail] }

\* record of one reserveHME call: its arguments, the place that made it and
\* whether the manual choice prompt had been answered when it was made
ReserveCall(hme, lbl, by) ==
    [hme |-> hme, label |-> lbl, by |-> by, prompted |-> prompted]

\* ------------------------------------------------------------------ Init
Configs ==
    [ AutoSelect : BOOLEAN, AllowManual : BOOLEAN, MinScore : MinScores,
      MaxRegenerateCount : 0..MaxRegen, SaveGeneratedEmails : BOOLEAN ]

\* the state in which handleSmartCreateEmail is entered
FlowStart ==
    /\ label = ""
    /\ pc = "start"
    /\ maxTries = 0
    /\ nextId = 0
    /\ wpc = [i \in Workers |-> "unborn"]
    /\ wres = [i \in Workers |-> ErrResult]
    /\ resultChan = << >>
    /\ chanClosed = FALSE
    /\ closeCount = 0
    /\ wg = 0
    /\ cpc = "unborn"
    /\ candidates = << >>
    /\ bestEmail = NoEmail
    /\ bestScore = 0
    /\ result = NilResult
    /\ input = << >>
    /\ prompted = FALSE
    /\ selectedEmail = NoEmail
    /\ finalEmail = NoEmail
    /\ outcome = "running"
    /\ genCalls = [i \in Workers |-> 0]
    /\ reserveCalls = << >>
    /\ reserveReturns = << >>
    /\ savedFile = << >>

Init ==
    /\ cfg \in Configs
    /\ scoreOf \in [Emails -> Scores]
    /\ FlowStart
    /\ MoreIdle
    /\ ScorerIdle
    /\ ConfigIdle
    /\ SpinnerIdle

\* ------------------------------------------- handleSmartCreateEmail, start
\* generateSmartEmail: the fan-out, or 3 when max_regenerate_count <= 0
MaxTriesOf(n) == IF n <= 0 THEN DefaultMaxTries ELSE n

\* the label prompt; an empty label ends the invocation, any other label
\* enters generateSmartEmail, which computes maxTries and makes the channel
ReadLabel ==
    /\ pc = "start"
    /\ \E l \in Labels :
         /\ label' = l
         /\ IF l = ""
            THEN /\ pc' = "done"
                 /\ outcome' = "emptyLabel"
                 /\ UNCHANGED << maxTries, nextId >>
            ELSE /\ pc' = "launch"
                 /\ maxTries' = MaxTriesOf(cfg.MaxRegenerateCount)
                 /\ nextId' = 1
                 /\ UNCHANGED outcome
    /\ UNCHANGED << otherVars, cfg, scoreOf, wpc, wres, resultChan, chanClosed,
                    closeCount, wg, cpc, candidates, bestEmail, bestScore,
                    result, input, prompted, selectedEmail, finalEmail,
                    genCalls, reserveCalls, reserveReturns, savedFile >>

\* ------------------------------------------ generateSmartEmail, the fan-out
\* one iteration of the launch loop: wg.Add(1) and go func(id)
Launch ==
    /\ pc = "launch"
    /\ nextId <= maxTries
    /\ wg' = wg + 1
    /\ wpc' = [wpc EXCEPT ![nextId] = "gen"]
    /\ nextId' = nextId + 1
    /\ UNCHANGED << otherVars, cfg, scoreOf, label, pc, maxTries, wres, resultChan,
                    chanClosed, closeCount, cpc, candidates, bestEmail,
                    bestScore, result, input, prompted, selectedEmail,
                    finalEmail, outcome, genCalls, reserveCalls, reserveReturns, savedFile >>

\* the loop is over: start the goroutine that waits and closes, and go on
\* to the collection loop
LaunchCloser ==
    /\ pc = "launch"
    /\ nextId > maxTries
    /\ cpc' = "wait"
    /\ pc' = "collect"
    /\ UNCHANGED << otherVars, cfg, scoreOf, label, maxTries, nextId, wpc, wres,
                    resultChan, chanClosed, closeCount, wg, candidates,
                    bestEmail, bestScore, result, input, prompted,
                    selectedEmail, finalEmail, outcome, genCalls,
                    reserveCalls, reserveReturns, savedFile >>

\* goroutine id: generateHME, then evaluateEmailQuality on success
Generate(id) ==
    /\ wpc[id] = "gen"
    /\ genCalls' = [genCalls EXCEPT ![id] = @ + 1]
    /\ \E reply \in GenerateReplies :
         wres' = [wres EXCEPT ![id] =
                    IF reply.ok
                    THEN OkResult(Candidate(reply.hme, scoreOf[reply.hme], id))
                    ELSE ErrResult]
    /\ wpc' = [wpc EXCEPT ![id] = "send"]
    /\ UNCHANGED << otherVars, cfg, scoreOf, label, pc, maxTries, nextId, resultChan,
                    chanClosed, closeCount, wg, cpc, candidates, bestEmail,
                    bestScore, result, input, prompted, selectedEmail,
                    finalEmail, outcome, reserveCalls, reserveReturns, savedFile >>

\* goroutine id: resultChan <- candidateResult; the channel holds maxTries
Send(id) ==
    /\ wpc[id] = "send"
    /\ Len(resultChan) < maxTries
    /\ ~chanClosed
    /\ resultChan' = Append(resultChan, wres[id])
    /\ wpc' = [wpc EXCEPT ![id] = "exit"]
    /\ UNCHANGED << otherVars, cfg, scoreOf, label, pc, maxTries, nextId, wres,
                    chanClosed, closeCount, wg, cpc, candidates, bestEmail,
                    bestScore, result, input, prompted, selectedEmail,
                    finalEmail, outcome, genCalls, reserveCalls, reserveReturns, savedFile >>

\* variant: wg.Done() is not deferred and the error return skips it
WorkerDone_NotOnError(id) ==
    /\ wpc[id] = "exit"
    /\ wg' = IF wres[id].err THEN wg ELSE wg - 1
    /\ wpc' = [wpc EXCEPT ![id] = "done"]
    /\ UNCHANGED << otherVars, cfg, scoreOf, label, pc, maxTries, nextId, wres,
                    resultChan, chanClosed, closeCount, cpc, candidates,
                    bestEmail, bestScore, result, input, prompted,
                    selectedEmail, finalEmail, outcome, genCalls,
                    reserveCalls, reserveReturns, savedFile >>

\* goroutine id: the deferred wg.Done()
WorkerDone(id) ==
    /\ wpc[id] = "exit"
    /\ wg' = wg - 1
    /\ wpc' = [wpc EXCEPT ![id] = "done"]
    /\ UNCHANGED << otherVars, cfg, scoreOf, label, pc, maxTries, nextId, wres,
                    resultChan, chanClosed, closeCount, cpc, candidates,
                    bestEmail, bestScore, result, input, prompted,
                    selectedEmail, finalEmail, outcome, genCalls,
                    reserveCalls, reserveReturns, savedFile >>

\* variant: the wait does not look at the counter
WaitReturns_Early(counter) == TRUE

\* wg.Wait() returns when the counter is zero
WaitReturns(counter) == counter = 0

\* closing goroutine: wg.Wait()
CloserWait ==
    /\ cpc = "wait"
    /\ WaitReturns(wg)
    /\ cpc' = "close"
    /\ UNCHANGED << otherVars, cfg, scoreOf, label, pc, maxTries, nextId, wpc, wres,
                    resultChan, chanClosed, closeCount, wg, candidates,
                    bestEmail, bestScore, result, input, prompted,
                    selectedEmail, finalEmail, outcome, genCalls,
                    reserveCalls, reserveReturns, savedFile >>

\* closing goroutine: close(resultChan)
CloserClose ==
    /\ cpc = "close"
    /\ chanClosed' = TRUE
    /\ closeCount' = closeCount + 1
    /\ cpc' = "done"
    /\ UNCHANGED << otherVars, cfg, scoreOf, label, pc, maxTries, nextId, wpc, wres,
                    resultChan, wg, candidates, bestEmail, bestScore, result,
                    input, prompted, selectedEmail, finalEmail, outcome,
                    genCalls, reserveCalls, reserveReturns, savedFile >>

\* --------------------------------------- generateSmartEmail, collection
\* variant: the last candidate received always becomes the best one
ReplacesBest_Always(score, best) == TRUE

\* "if candidate.Score > bestScore": the candidate replaces the best one
ReplacesBest(score, best) == score > best

\* variant: a failed attempt is not skipped, its zero candidate is appended
Receive_NoSkip ==
    /\ pc = "collect"
    /\ resultChan # << >>
    /\ resultChan' = Tail(resultChan)
    /\ LET r == Head(resultChan) IN
         /\ candidates' = Append(candidates, r.candidate)
         /\ IF ReplacesBest(r.candidate.Score, bestScore)
            THEN /\ bestEmail' = r.candidate.Email
                 /\ bestScore' = r.candidate.Score
            ELSE UNCHANGED << bestEmail, bestScore >>
    /\ UNCHANGED << otherVars, cfg, scoreOf, label, pc, maxTries, nextId, wpc, wres,
                    chanClosed, closeCount, wg, cpc, result, input, prompted,
                    selectedEmail, finalEmail, outcome, genCalls,
                    reserveCalls, reserveReturns, savedFile >>

\* one iteration of "for result := range resultChan": a failed attempt is
\* reported and skipped, a candidate is appended and compared with the best
Receive ==
    /\ pc = "collect"
    /\ resultChan # << >>
    /\ resultChan' = Tail(resultChan)
    /\ LET r == Head(resultChan) IN
         IF r.err
         THEN UNCHANGED << candidates, bestEmail, bestScore >>
         ELSE /\ candidates' = Append(candidates, r.candidate)
              /\ IF ReplacesBest(r.candidate.Score, bestScore)
                 THEN /\ bestEmail' = r.candidate.Email
                      /\ bestScore' = r.candidate.Score
                 ELSE UNCHANGED << bestEmail, bestScore >>
    /\ UNCHANGED << otherVars, cfg, scoreOf, label, pc, maxTries, nextId, wpc, wres,
                    chanClosed, closeCount, wg, cpc, result, input, prompted,
                    selectedEmail, finalEmail, outcome, genCalls,
                    reserveCalls, reserveReturns, savedFile >>

\* the range loop ends when the channel is closed and drained
CollectEnd ==
    /\ pc = "collect"
    /\ resultChan = << >>
    /\ chanClosed
    /\ pc' = "decide"
    /\ UNCHANGED << otherVars, cfg, scoreOf, label, maxTries, nextId, wpc, wres,
                    resultChan, chanClosed, closeCount, wg, cpc, candidates,
                    bestEmail, bestScore, result, input, prompted,
                    selectedEmail, finalEmail, outcome, genCalls,
                    reserveCalls, reserveReturns, savedFile >>

\* ----------------------------------------- generateSmartEmail, the return
\* variant: the empty candidate list is returned like any other
AllAttemptsFailed_ReturnsEmpty ==
    /\ pc = "decide"
    /\ Len(candidates) = 0
    /\ result' = QualityResult(candidates, bestEmail, bestScore, FALSE)
    /\ pc' = "handle"
    /\ UNCHANGED << otherVars, cfg, scoreOf, label, maxTries, nextId, wpc, wres,
                    resultChan, chanClosed, closeCount, wg, cpc, candidates,
                    bestEmail, bestScore, input, prompted, selectedEmail,
                    finalEmail, outcome, genCalls, reserveCalls, reserveReturns, savedFile >>

\* "if len(candidates) == 0": the error is returned, handleSmartCreateEmail
\* prints it and returns
AllAttemptsFailed ==
    /\ pc = "decide"
    /\ Len(candidates) = 0
    /\ result' = NilResult
    /\ outcome' = "allFailed"
    /\ pc' = "done"
    /\ UNCHANGED << otherVars, cfg, scoreOf, label, maxTries, nextId, wpc, wres,
                    resultChan, chanClosed, closeCount, wg, cpc, candidates,
                    bestEmail, bestScore, input, prompted, selectedEmail,
                    finalEmail, genCalls, reserveCalls, reserveReturns, savedFile >>

\* variant: the score is not compared with min_score
AutoCommitCondition_NoGate(q, best) == q.AutoSelect

\* "if qualityConfig.AutoSelect && bestScore >= qualityConfig.MinScore"
AutoCommitCondition(q, best) == q.AutoSelect /\ best >= q.MinScore

\* the auto-commit branch: reserveHME(bestEmail, label); its error is
\* returned with a nil result, its answer becomes BestEmail
AutoCommit ==
    /\ pc = "decide"
    /\ Len(candidates) # 0
    /\ AutoCommitCondition(cfg, bestScore)
    /\ reserveCalls' = Append(reserveCalls, ReserveCall(bestEmail, label, "auto"))
    /\ \E reply \in ReserveReplies(bestEmail) :
       /\ reserveReturns' = Append(reserveReturns, reply)
       /\ IF reply.ok
         THEN /\ result' = QualityResult(candidates, reply.hme, bestScore, TRUE)
              /\ pc' = "handle"
              /\ UNCHANGED outcome
         ELSE /\ result' = NilResult
              /\ outcome' = "confirmFailed"
              /\ pc' = "done"
    /\ UNCHANGED << otherVars, cfg, scoreOf, label, maxTries, nextId, wpc, wres,
                    resultChan, chanClosed, closeCount, wg, cpc, candidates,
                    bestEmail, bestScore, input, prompted, selectedEmail,
                    finalEmail, genCalls, savedFile >>

\* otherwise all candidates are returned for the caller to choose
ReturnCandidates ==
    /\ pc = "decide"
    /\ Len(candidates) # 0
    /\ ~AutoCommitCondition(cfg, bestScore)
    /\ result' = QualityResult(candidates, bestEmail, bestScore, FALSE)
    /\ pc' = "handle"
    /\ UNCHANGED << otherVars, cfg, scoreOf, label, maxTries, nextId, wpc, wres,
                    resultChan, chanClosed, closeCount, wg, cpc, candidates,
                    bestEmail, bestScore, input, prompted, selectedEmail,
                    finalEmail, outcome, genCalls, reserveCalls, reserveReturns, savedFile >>

\* ---------------------------------- handleSmartCreateEmail, the selection
\* variant: the caller confirms the auto-selected alias a second time
TakeAutoSelected_Reconfirm ==
    /\ pc = "handle"
    /\ result.AutoSelected
    /\ reserveCalls' =
         Append(reserveCalls, ReserveCall(result.BestEmail, label, "handler"))
    /\ reserveReturns' =
         Append(reserveReturns, [ok |-> TRUE, hme |-> result.BestEmail])
    /\ finalEmail' = result.BestEmail
    /\ pc' = "save"
    /\ UNCHANGED << otherVars, cfg, scoreOf, label, maxTries, nextId, wpc, wres,
                    resultChan, chanClosed, closeCount, wg, cpc, candidates,
                    bestEmail, bestScore, result, input, prompted,
                    selectedEmail, outcome, genCalls, savedFile >>

\* "if result.AutoSelected": the alias is the one generateSmartEmail reserved
TakeAutoSelected ==
    /\ pc = "handle"
    /\ result.AutoSelected
    /\ finalEmail' = result.BestEmail
    /\ pc' = "save"
    /\ UNCHANGED << otherVars, cfg, scoreOf, label, maxTries, nextId, wpc, wres,
                    resultChan, chanClosed, closeCount, wg, cpc, candidates,
                    bestEmail, bestScore, result, input, prompted,
                    selectedEmail, outcome, genCalls, reserveCalls, reserveReturns,
                    savedFile >>

\* selectEmailManually up to the prompt: without candidates it returns an
\* error; otherwise the candidates are listed in the order of
\* result.Candidates and one line is read, trimmed and lowercased
ReadChoice ==
    /\ pc = "handle"
    /\ ~result.AutoSelected
    /\ cfg.AllowManual
    /\ IF Len(result.Candidates) = 0
       THEN /\ outcome' = "noCandidates"
            /\ pc' = "done"
            /\ UNCHANGED << input, prompted >>
       ELSE /\ \E line \in InputLines :
                 input' = TrimSpace(ToLower(readInput(line)))
            /\ prompted' = TRUE
            /\ pc' = "select"
            /\ UNCHANGED outcome
    /\ UNCHANGED << otherVars, cfg, scoreOf, label, maxTries, nextId, wpc, wres,
                    resultChan, chanClosed, closeCount, wg, cpc, candidates,
                    bestEmail, bestScore, result, selectedEmail, finalEmail,
                    genCalls, reserveCalls, reserveReturns, savedFile >>

\* "id < 1 || id > len(result.Candidates)" does not hold
IdInRange(id, cands) == ~(id < 1 \/ id > Len(cands))

\* variant: the id is used as a position in the list
EmailOfID_ByPosition(cands, id) ==
    IF id \in 1..Len(cands) THEN cands[id].Email ELSE NoEmail

\* the lookup loop: the email of the first candidate with that ID, or ""
RECURSIVE EmailOfID(_, _)
EmailOfID(cands, id) ==
    IF cands = << >> THEN NoEmail
    ELSE IF Head(cands).ID = id THEN Head(cands).Email
    ELSE EmailOfID(Tail(cands), id)

\* selectEmailManually: the email chosen by the line read; NoEmail stands
\* for both error returns of a numeric choice
AcceptsBest(in) == in = AutoWord \/ in = << >>
ChoiceValid(in, cands) ==
    /\ AtoiOk(in)
    /\ IdInRange(AtoiVal(in), cands)
    /\ EmailOfID(cands, AtoiVal(in)) # NoEmail

\* getBestCandidateID: the ID of the first candidate whose score is above
\* every earlier one, starting from -1; 0 without candidates
RECURSIVE BestIDFrom(_, _, _)
BestIDFrom(cands, score, id) ==
    IF cands = << >> THEN id
    ELSE IF Head(cands).Score > score
    THEN BestIDFrom(Tail(cands), Head(cands).Score, Head(cands).ID)
    ELSE BestIDFrom(Tail(cands), score, id)

getBestCandidateID(cands) ==
    IF Len(cands) = 0 THEN 0 ELSE BestIDFrom(cands, -1, 0)

\* selectEmailManually from the prompt to the choice of selectedEmail
Select ==
    /\ pc = "select"
    /\ IF AcceptsBest(input)
       THEN /\ selectedEmail' = result.BestEmail
            /\ pc' = "manualReserve"
            /\ UNCHANGED outcome
       ELSE IF ChoiceValid(input, result.Candidates)
       THEN /\ selectedEmail' = EmailOfID(result.Candidates, AtoiVal(input))
            /\ pc' = "manualReserve"
            /\ UNCHANGED outcome
       ELSE /\ outcome' = "invalidSelection"
            /\ pc' = "done"
            /\ UNCHANGED selectedEmail
    /\ UNCHANGED << otherVars, cfg, scoreOf, label, maxTries, nextId, wpc, wres,
                    resultChan, chanClosed, closeCount, wg, cpc, candidates,
                    bestEmail, bestScore, result, input, prompted,
                    finalEmail, genCalls, reserveCalls, reserveReturns, savedFile >>

\* variant: a failed reserveHME is not noticed
ManualReserve_IgnoresError ==
    /\ pc = "manualReserve"
    /\ reserveCalls' =
         Append(reserveCalls, ReserveCall(selectedEmail, label, "manual"))
    /\ \E reply \in ReserveReplies(selectedEmail) :
       /\ reserveReturns' = Append(reserveReturns, reply)
       /\ finalEmail' = reply.hme
       /\ pc' = "save"
       /\ UNCHANGED outcome
    /\ UNCHANGED << otherVars, cfg, scoreOf, label, maxTries, nextId, wpc, wres,
                    resultChan, chanClosed, closeCount, wg, cpc, candidates,
                    bestEmail, bestScore, result, input, prompted,
                    selectedEmail, genCalls, savedFile >>

\* selectEmailManually: reserveHME(selectedEmail, label)
ManualReserve ==
    /\ pc = "manualReserve"
    /\ reserveCalls' =
         Append(reserveCalls, ReserveCall(selectedEmail, label, "manual"))
    /\ \E reply \in ReserveReplies(selectedEmail) :
       /\ reserveReturns' = Append(reserveReturns, reply)
       /\ IF reply.ok
         THEN /\ finalEmail' = reply.hme
              /\ pc' = "save"
              /\ UNCHANGED outcome
         ELSE /\ outcome' = "confirmFailed"
              /\ pc' = "done"
              /\ UNCHANGED finalEmail
    /\ UNCHANGED << otherVars, cfg, scoreOf, label, maxTries, nextId, wpc, wres,
                    resultChan, chanClosed, closeCount, wg, cpc, candidates,
                    bestEmail, bestScore, result, input, prompted,
                    selectedEmail, genCalls, savedFile >>

\* variant: the address passed to reserveHME is kept as the final one
Fallback_KeepsCandidate ==
    /\ pc = "handle"
    /\ ~result.AutoSelected
    /\ ~cfg.AllowManual
    /\ reserveCalls' =
         Append(reserveCalls, ReserveCall(result.BestEmail, label, "fallback"))
    /\ \E reply \in ReserveReplies(result.BestEmail) :
       /\ reserveReturns' = Append(reserveReturns, reply)
       /\ IF reply.ok
         THEN /\ finalEmail' = result.BestEmail
              /\ pc' = "save"
              /\ UNCHANGED outcome
         ELSE /\ outcome' = "confirmFailed"
              /\ pc' = "done"
              /\ UNCHANGED finalEmail
    /\ UNCHANGED << otherVars, cfg, scoreOf, label, maxTries, nextId, wpc, wres,
                    resultChan, chanClosed, closeCount, wg, cpc, candidates,
                    bestEmail, bestScore, result, input, prompted,
                    selectedEmail, genCalls, savedFile >>

\* manual choice disallowed: reserveHME(result.BestEmail, label)
Fallback ==
    /\ pc = "handle"
    /\ ~result.AutoSelected
    /\ ~cfg.AllowManual
    /\ reserveCalls' =
         Append(reserveCalls, ReserveCall(result.BestEmail, label, "fallback"))
    /\ \E reply \in ReserveReplies(result.BestEmail) :
       /\ reserveReturns' = Append(reserveReturns, reply)
       /\ IF reply.ok
         THEN /\ finalEmail' = reply.hme
              /\ pc' = "save"
              /\ UNCHANGED outcome
         ELSE /\ outcome' = "confirmFailed"
              /\ pc' = "done"
              /\ UNCHANGED finalEmail
    /\ UNCHANGED << otherVars, cfg, scoreOf, label, maxTries, nextId, wpc, wres,
                    resultChan, chanClosed, closeCount, wg, cpc, candidates,
                    bestEmail, bestScore, result, input, prompted,
                    selectedEmail, genCalls, savedFile >>

\* saveEmailToFile and the final report: nothing is written when saving is
\* off; otherwise the record is appended, or the write fails with a warning
Save ==
    /\ pc = "save"
    /\ \/ /\ cfg.SaveGeneratedEmails
          /\ savedFile' = Append(savedFile, [email |-> finalEmail, label |-> label])
       \/ UNCHANGED savedFile
    /\ outcome' = "success"
    /\ pc' = "done"
    /\ UNCHANGED << otherVars, cfg, scoreOf, label, maxTries, nextId, wpc, wres,
                    resultChan, chanClosed, closeCount, wg, cpc, candidates,
                    bestEmail, bestScore, result, input, prompted,
                    selectedEmail, finalEmail, genCalls, reserveCalls, reserveReturns >>

\* ------------------------------------------------------- specification
Next ==
    \/ ReadLabel
    \/ Launch
    \/ LaunchCloser
    \/ \E id \in Workers : Generate(id)
    \/ \E id \in Workers : Send(id)
    \/ \E id \in Workers : WorkerDone(id)
    \/ CloserWait
    \/ CloserClose
    \/ Receive
    \/ CollectEnd
    \/ AllAttemptsFailed
    \/ AutoCommit
    \/ ReturnCandidates
    \/ TakeAutoSelected
    \/ ReadChoice
    \/ Select
    \/ ManualReserve
    \/ Fallback
    \/ Save

Spec == Init /\ [][Next]_vars

\* ------------------------------------------------- handleSmartCreateEmail
\* is not running
FlowIdle ==
    /\ cfg = [AutoSelect |-> FALSE, AllowManual |-> TRUE, MinScore |-> 70,
              MaxRegenerateCount |-> 3, SaveGeneratedEmails |-> FALSE]
    /\ scoreOf = [e \in Emails |-> 0]
    /\ FlowStart

\* ------------------------------- generateSmartEmail up to the end of the
\* collection loop, with the scheduling of its goroutines
\* the options the selection reads are fixed, and two scores are enough
CollectScores == {0, 85}
CollectConfigs == {c \in Configs : ~c.AutoSelect /\ c.AllowManual /\ ~c.SaveGeneratedEmails}

CollectInit ==
    /\ cfg \in CollectConfigs
    /\ scoreOf \in [Emails -> CollectScores]
    /\ FlowStart
    /\ MoreIdle
    /\ ScorerIdle
    /\ ConfigIdle
    /\ SpinnerIdle

NextCollect ==
    \/ ReadLabel
    \/ Launch
    \/ LaunchCloser
    \/ \E id \in Workers : Generate(id)
    \/ \E id \in Workers : Send(id)
    \/ \E id \in Workers : WorkerDone(id)
    \/ CloserWait
    \/ CloserClose
    \/ Receive
    \/ CollectEnd

\* a goroutine that can take its next step takes it in the end, and a
\* generateHME call returns in the end; the label prompt may wait for ever
CollectFairness ==
    /\ WF_vars(Launch)
    /\ WF_vars(LaunchCloser)
    /\ \A id \in Workers : WF_vars(Generate(id))
    /\ \A id \in Workers : WF_vars(Send(id))
    /\ \A id \in Workers : WF_vars(WorkerDone(id))
    /\ WF_vars(CloserWait)
    /\ WF_vars(CloserClose)
    /\ WF_vars(Receive)
    /\ WF_vars(CollectEnd)

SpecCollect == CollectInit /\ [][NextCollect]_vars /\ CollectFairness

\* ============================================================ scoring call
\* one call evaluateEmailQuality(email, weights), as made by the attempts of
\* generateSmartEmail, showDetailedScore and testEmailScoring
ScoreInit ==
    /\ qEmail \in EmailPool
    /\ qWeights \in WeightSets
    /\ qpc = "ready"
    /\ qSub = NoSubScores
    /\ qScore = 0
    /\ FlowIdle
    /\ MoreIdle
    /\ ConfigIdle
    /\ SpinnerIdle

Evaluate ==
    /\ qpc = "ready"
    /\ qScore' = evaluateEmailQuality(qEmail, qWeights)
    /\ qSub' = IF PartCount(qEmail) = 2 THEN SubScores(qEmail) ELSE NoSubScores
    /\ qpc' = "scored"
    /\ UNCHANGED << qEmail, qWeights, flowVars, moreVars, configVars, spinnerVars >>

NextScore == Evaluate

SpecScore == ScoreInit /\ [][NextScore]_vars

\* ===================================================== end-to-end scenario
\* the provider hands out two addresses, named by the strings of the flow
\* and spelled for the scorer
ScenarioEmails == {"kettles.doltish@icloud.com", "a@b"}
Spelling(e) == IF e = "kettles.doltish@icloud.com" THEN Kettles ELSE AAtB

\* auto_select on, min_score 70, three tries, the default weights
ScenarioConfigs ==
    [ AutoSelect : {TRUE}, AllowManual : BOOLEAN, MinScore : {70},
      MaxRegenerateCount : {3}, SaveGeneratedEmails : BOOLEAN ]

ScenarioInit ==
    /\ cfg \in ScenarioConfigs
    /\ scoreOf = [e \in ScenarioEmails |->
                     evaluateEmailQuality(Spelling(e), DefaultQuality.Weights)]
    /\ FlowStart
    /\ MoreIdle
    /\ ScorerIdle
    /\ ConfigIdle
    /\ SpinnerIdle

SpecScenario == ScenarioInit /\ [][Next]_vars

\* ===================================================== configuration file
ConfigInit ==
    /\ fileJSON \in ConfigFiles
    /\ loaded = NilConfig
    /\ lpc = "start"
    /\ FlowIdle
    /\ MoreIdle
    /\ ScorerIdle
    /\ SpinnerIdle

\* ConfigManager.LoadConfig: read, parse, setDefaults
LoadConfig ==
    /\ lpc = "start"
    /\ IF fileJSON.state = "ok"
       THEN /\ loaded' = LoadedConfig(setDefaults(Unmarshal(fileJSON.email_quality)))
            /\ lpc' = "loaded"
       ELSE /\ loaded' = NilConfig
            /\ lpc' = "failed"
    /\ UNCHANGED << fileJSON, flowVars, moreVars, scorerVars, spinnerVars >>

\* entry 7 of the quality settings: resetToDefaults, then
\* saveConfigWithMessage, whose write to config.json may fail
ResetDefaults ==
    /\ lpc = "loaded"
    /\ loaded' = LoadedConfig(DefaultQuality)
    /\ \/ fileJSON' = [state |-> "ok", email_quality |-> Marshal(DefaultQuality)]
       \/ UNCHANGED fileJSON
    /\ lpc' = "reset"
    /\ UNCHANGED << flowVars, moreVars, scorerVars, spinnerVars >>

NextConfig == LoadConfig \/ ResetDefaults

SpecConfig == ConfigInit /\ [][NextConfig]_vars

\* ========================================== settings menu, save and reload
\* numbers typed at the prompts of the settings menus
MinScoreInputs == {-1, 0, 50, 100, 101}
TriesInputs == {0, 1, 5, 6}
WeightInputs == {-1, 0, 30, 100, 101}

\* files found at start-up: unreadable, or with allow_manual set and
\* auto_select left out
SettingsFiles ==
    {f \in ConfigFiles :
        \/ f.state = "unreadable"
        \/ /\ f.state = "ok"
           /\ f.email_quality.auto_select = Absent
           /\ f.email_quality.allow_manual = {TRUE}}

SettingsInit ==
    /\ fileJSON \in SettingsFiles
    /\ loaded = NilConfig
    /\ lpc = "start"
    /\ FlowIdle
    /\ MoreIdle
    /\ ScorerIdle
    /\ SpinnerIdle

\* saveConfigWithMessage: SaveConfig writes every field of the
\* configuration, or the write fails and an error is printed
SaveConfig(q) ==
    \/ /\ fileJSON' = [state |-> "ok", email_quality |-> Marshal(q)]
       /\ lpc' = "saved"
    \/ /\ UNCHANGED fileJSON
       /\ lpc' = "saveFailed"

\* a number outside the range is refused with a message
Refused ==
    /\ lpc' = "refused"
    /\ UNCHANGED << fileJSON, loaded >>

\* entry 2 of the quality settings: min_score, 0 to 100
SetMinScore ==
    /\ lpc = "loaded"
    /\ \E score \in MinScoreInputs :
         IF score < 0 \/ score > 100
         THEN Refused
         ELSE LET q == [loaded.EmailQuality EXCEPT !.MinScore = score] IN
                /\ loaded' = LoadedConfig(q)
                /\ SaveConfig(q)
    /\ UNCHANGED << flowVars, moreVars, scorerVars, spinnerVars >>

\* entry 3 of the quality settings: max_regenerate_count, 1 to 5
SetMaxTries ==
    /\ lpc = "loaded"
    /\ \E tries \in TriesInputs :
         IF tries < 1 \/ tries > 5
         THEN Refused
         ELSE LET q == [loaded.EmailQuality EXCEPT !.MaxRegenerateCount = tries] IN
                /\ loaded' = LoadedConfig(q)
                /\ SaveConfig(q)
    /\ UNCHANGED << flowVars, moreVars, scorerVars, spinnerVars >>

\* entries 1 to 4 of handleWeightSettings: one weight, 0 to 100
SetWeight ==
    /\ lpc = "loaded"
    /\ \E d \in Dimensions, weight \in WeightInputs :
         IF weight < 0 \/ weight > 100
         THEN Refused
         ELSE LET q == [loaded.EmailQuality EXCEPT !.Weights[d] = weight] IN
                /\ loaded' = LoadedConfig(q)
                /\ SaveConfig(q)
    /\ UNCHANGED << flowVars, moreVars, scorerVars, spinnerVars >>

\* LoadConfig of the file just saved, at the next start or by the watcher
Reload ==
    /\ lpc = "saved"
    /\ loaded' = LoadedConfig(setDefaults(Unmarshal(fileJSON.email_quality)))
    /\ lpc' = "reloaded"
    /\ UNCHANGED << fileJSON, flowVars, moreVars, scorerVars, spinnerVars >>

NextSettings ==
    \/ LoadConfig
    \/ SetMinScore
    \/ SetMaxTries
    \/ SetWeight
    \/ Reload

SpecSettings == SettingsInit /\ [][NextSettings]_vars

\* ============================================================= withSpinner
\* number of animation frames
FrameCount == 10
\* ticks of the animation explored
MaxTicks == 12

SpinnerInit ==
    /\ spMain = "start"
    /\ spGo = "unborn"
    /\ spClosed = 0
    /\ spWg = 0
    /\ spIdx = 0
    /\ spFrame = 0
    /\ spAction = "none"
    /\ spErr = "nil"
    /\ FlowIdle
    /\ MoreIdle
    /\ ScorerIdle
    /\ ConfigIdle

\* make(chan), wg.Add(1), go func()
SpinStart ==
    /\ spMain = "start"
    /\ spWg' = spWg + 1
    /\ spGo' = "select"
    /\ spMain' = "running"
    /\ UNCHANGED << spClosed, spIdx, spFrame, spAction, spErr,
                    flowVars, moreVars, scorerVars, configVars >>

\* animation goroutine, case <-ticker.C: print frames[idx%frameCount], idx++
SpinTick ==
    /\ spGo = "select"
    /\ spIdx < MaxTicks
    /\ spFrame' = spIdx % FrameCount
    /\ spIdx' = spIdx + 1
    /\ UNCHANGED << spMain, spGo, spClosed, spWg, spAction, spErr,
                    flowVars, moreVars, scorerVars, configVars >>

\* animation goroutine, case <-done: return, ticker.Stop(), wg.Done()
SpinExit ==
    /\ spGo = "select"
    /\ spClosed > 0
    /\ spWg' = spWg - 1
    /\ spGo' = "exited"
    /\ UNCHANGED << spMain, spClosed, spIdx, spFrame, spAction, spErr,
                    flowVars, moreVars, scorerVars, configVars >>

\* err = action(): the action returns nil, returns an error or panics
SpinAction ==
    /\ spMain = "running"
    /\ \E how \in {"nil", "error", "panic"} :
         /\ spAction' = how
         /\ spErr' = IF how = "error" THEN "actionError" ELSE "nil"
    /\ spMain' = "deferred"
    /\ UNCHANGED << spGo, spClosed, spWg, spIdx, spFrame,
                    flowVars, moreVars, scorerVars, configVars >>

\* variant: no recover; a panic leaves withSpinner at once
SpinCleanup_NoRecover ==
    /\ spMain = "deferred"
    /\ IF spAction = "panic"
       THEN /\ spMain' = "panicked"
            /\ UNCHANGED spClosed
       ELSE /\ spMain' = "waiting"
            /\ spClosed' = spClosed + 1
    /\ UNCHANGED << spGo, spWg, spIdx, spFrame, spAction, spErr,
                    flowVars, moreVars, scorerVars, configVars >>

\* the deferred function up to wg.Wait(): recover turns a panic into an
\* error, then close(done)
SpinCleanup ==
    /\ spMain = "deferred"
    /\ spErr' = IF spAction = "panic" THEN "panicError" ELSE spErr
    /\ spClosed' = spClosed + 1
    /\ spMain' = "waiting"
    /\ UNCHANGED << spGo, spWg, spIdx, spFrame, spAction,
                    flowVars, moreVars, scorerVars, configVars >>

\* the deferred function from wg.Wait() on: the status line, the return
SpinReturn ==
    /\ spMain = "waiting"
    /\ spWg = 0
    /\ spMain' = "returned"
    /\ UNCHANGED << spGo, spClosed, spWg, spIdx, spFrame, spAction, spErr,
                    flowVars, moreVars, scorerVars, configVars >>

NextSpinner ==
    \/ SpinStart
    \/ SpinTick
    \/ SpinExit
    \/ SpinAction
    \/ SpinCleanup
    \/ SpinReturn

SpecSpinner == SpinnerInit /\ [][NextSpinner]_vars

\* ================================== main loop, globalConfig and hot reload
\* values of min_score and of the options in config.json
MenuMinScores == {0, 50, 70}
MenuConfigs == {MenuConfig(dev, min) : dev \in BOOLEAN, min \in MenuMinScores}

\* LoadConfig on these options: setDefaults replaces a min_score of 0
MenuLoad(disk) ==
    MenuConfig(disk.DeveloperMode, IF disk.MinScore = 0 THEN 70 ELSE disk.MinScore)

MenuInit ==
    /\ diskConfig \in MenuConfigs
    /\ mainConfig = ZeroMenuConfig
    /\ globalConfig = ZeroMenuConfig
    /\ sameObject = FALSE
    /\ menuShows9 = FALSE
    /\ ranTest = "none"
    /\ mpc = "off"
    /\ rpc = [c \in Callbacks |-> "idle"]
    /\ newConfig = [c \in Callbacks |-> ZeroMenuConfig]
    /\ FlowIdle
    /\ ProcessIdle
    /\ BatchIdle
    /\ ScorerIdle
    /\ ConfigIdle
    /\ SpinnerIdle

\* main: config = LoadConfig(), globalConfig = config; the watcher is
\* started afterwards
MenuStartup ==
    /\ mpc = "off"
    /\ mainConfig' = MenuLoad(diskConfig)
    /\ globalConfig' = MenuLoad(diskConfig)
    /\ sameObject' = TRUE
    /\ mpc' = "show"
    /\ UNCHANGED << diskConfig, menuShows9, ranTest, rpc, newConfig,
                    flowVars, processVars, batchVars, scorerVars, configVars, spinnerVars >>

\* showMainMenu at the top of the loop: entry [9] is printed when
\* getCurrentConfig().DeveloperMode
ShowMainMenu ==
    /\ mpc = "show"
    /\ menuShows9' = globalConfig.DeveloperMode
    /\ ranTest' = "none"
    /\ mpc' = "prompt"
    /\ UNCHANGED << diskConfig, mainConfig, globalConfig, sameObject, rpc, newConfig,
                    flowVars, processVars, batchVars, scorerVars, configVars, spinnerVars >>

\* choice "9": testEmailScoring when config.DeveloperMode, else the
\* invalid-choice message
Choose9 ==
    /\ mpc = "prompt"
    /\ ranTest' = IF mainConfig.DeveloperMode THEN "test" ELSE "invalid"
    /\ mpc' = "chosen"
    /\ UNCHANGED << diskConfig, mainConfig, globalConfig, sameObject, menuShows9,
                    rpc, newConfig,
                    flowVars, processVars, batchVars, scorerVars, configVars, spinnerVars >>

\* the end of an iteration of the main loop
MenuContinue ==
    /\ mpc = "chosen"
    /\ mpc' = "show"
    /\ UNCHANGED << diskConfig, mainConfig, globalConfig, sameObject, menuShows9,
                    ranTest, rpc, newConfig,
                    flowVars, processVars, batchVars, scorerVars, configVars, spinnerVars >>

\* a handler writes a field of *config, with no lock; globalConfig shows
\* the new value at once when it points to the same Config
MenuChange(changed) ==
    /\ mainConfig' = changed
    /\ globalConfig' = IF sameObject THEN changed ELSE globalConfig
    /\ mpc' = "assign"
    /\ UNCHANGED << diskConfig, sameObject, menuShows9, ranTest, rpc, newConfig,
                    flowVars, processVars, batchVars, scorerVars, configVars, spinnerVars >>

\* choice "8", then entry 3: config.DeveloperMode is inverted
ToggleDeveloperMode ==
    /\ mpc = "prompt"
    /\ MenuChange([mainConfig EXCEPT !.DeveloperMode = ~@])

\* choice "8", then the quality settings, entry 2: min_score is set
SetMenuMinScore ==
    /\ mpc = "prompt"
    /\ \E score \in MenuMinScores :
         MenuChange([mainConfig EXCEPT !.MinScore = score])

\* saveConfigWithMessage(config), under configMutex: globalConfig = config
MenuSaveAssign ==
    /\ mpc = "assign"
    /\ globalConfig' = mainConfig
    /\ sameObject' = TRUE
    /\ mpc' = "write"
    /\ UNCHANGED << diskConfig, mainConfig, menuShows9, ranTest, rpc, newConfig,
                    flowVars, processVars, batchVars, scorerVars, configVars, spinnerVars >>

\* saveConfigWithMessage(config): configManager.SaveConfig(config), whose
\* write may fail
MenuSave ==
    /\ mpc = "write"
    /\ \/ diskConfig' = mainConfig
       \/ UNCHANGED diskConfig
    /\ mpc' = "chosen"
    /\ UNCHANGED << mainConfig, globalConfig, sameObject, menuShows9, ranTest,
                    rpc, newConfig,
                    flowVars, processVars, batchVars, scorerVars, configVars, spinnerVars >>

\* config.json is written by an editor while the program runs
EditFile ==
    /\ mpc # "off"
    /\ \E new \in MenuConfigs : diskConfig' = new
    /\ UNCHANGED << mainConfig, globalConfig, sameObject, menuShows9, ranTest, mpc,
                    rpc, newConfig,
                    flowVars, processVars, batchVars, scorerVars, configVars, spinnerVars >>

\* a callback of the watcher's timer, started after a write to config.json
\* (the program's own or an editor's): newConfig = LoadConfig()
HotReloadLoad(c) ==
    /\ mpc # "off"
    /\ rpc[c] = "idle"
    /\ newConfig' = [newConfig EXCEPT ![c] = MenuLoad(diskConfig)]
    /\ rpc' = [rpc EXCEPT ![c] = "loaded"]
    /\ UNCHANGED << diskConfig, mainConfig, globalConfig, sameObject, menuShows9,
                    ranTest, mpc,
                    flowVars, processVars, batchVars, scorerVars, configVars, spinnerVars >>

\* the callback, under configMutex: globalConfig = newConfig
HotReload(c) ==
    /\ rpc[c] = "loaded"
    /\ globalConfig' = newConfig[c]
    /\ sameObject' = FALSE
    /\ rpc' = [rpc EXCEPT ![c] = "assigned"]
    /\ UNCHANGED << diskConfig, mainConfig, menuShows9, ranTest, mpc, newConfig,
                    flowVars, processVars, batchVars, scorerVars, configVars, spinnerVars >>

\* the callback: clearScreen, showMainMenu(), which reads globalConfig anew
HotReloadShow(c) ==
    /\ rpc[c] = "assigned"
    /\ menuShows9' = globalConfig.DeveloperMode
    /\ rpc' = [rpc EXCEPT ![c] = "idle"]
    /\ UNCHANGED << diskConfig, mainConfig, globalConfig, sameObject, ranTest, mpc,
                    newConfig,
                    flowVars, processVars, batchVars, scorerVars, configVars, spinnerVars >>

NextMenu ==
    \/ MenuStartup
    \/ ShowMainMenu
    \/ Choose9
    \/ MenuContinue
    \/ ToggleDeveloperMode
    \/ SetMenuMinScore
    \/ MenuSaveAssign
    \/ MenuSave
    \/ EditFile
    \/ \E c \in Callbacks : HotReloadLoad(c)
    \/ \E c \in Callbacks : HotReload(c)
    \/ \E c \in Callbacks : HotReloadShow(c)

SpecMenu == MenuInit /\ [][NextMenu]_vars

\* ===================================== process lock, start-up and exits
\* const maxReloadAttempts of the config watcher
MaxReloadAttempts == 3

ProcessInit ==
    /\ ProcessStart
    /\ FlowIdle
    /\ MenuIdle
    /\ BatchIdle
    /\ ScorerIdle
    /\ ConfigIdle
    /\ SpinnerIdle

\* psm.mutex of instance p is held: main is inside Lock, past the Stat
InLock(p) == ppc[p] \in {"read", "write"}

\* instance p is a running process
Running(p) == ppc[p] \notin {"off", "exited"}

\* ProcessSafetyManager.Unlock, under psm.mutex: nothing when not isLocked;
\* else os.Remove(lockFile), and isLocked = false unless the removal failed
\* with an error other than not-exist
Unlock(p) ==
    IF isLocked[p]
    THEN \/ /\ lockFile' = 0
            /\ isLocked' = [isLocked EXCEPT ![p] = FALSE]
         \/ /\ lockFile # 0
            /\ UNCHANGED << lockFile, isLocked >>
    ELSE UNCHANGED << lockFile, isLocked >>

\* os.Remove(LOCK_FILE), its error ignored
RemoveLockFile ==
    \/ lockFile' = 0
    \/ lockFile # 0 /\ UNCHANGED lockFile

\* os.Exit, or the return of main
Exits(p) == ppc' = [ppc EXCEPT ![p] = "exited"]

\* an instance is started: initializeManagers, setupSignalHandlers
ProcStart(p) ==
    /\ ppc[p] = "off"
    /\ ppc' = [ppc EXCEPT ![p] = "stat"]
    /\ UNCHANGED << lockFile, isLocked, acquired, reloadAttempts, sigpc, xpc,
                    flowVars, menuVars, batchVars, scorerVars, configVars, spinnerVars >>

\* Lock: psm.mutex is taken, os.Stat(lockFile)
LockStat(p) ==
    /\ ppc[p] = "stat"
    /\ ppc' = [ppc EXCEPT ![p] = IF lockFile # 0 THEN "read" ELSE "write"]
    /\ UNCHANGED << lockFile, isLocked, acquired, reloadAttempts, sigpc, xpc,
                    flowVars, menuVars, batchVars, scorerVars, configVars, spinnerVars >>

\* Lock: os.ReadFile(lockFile); when it succeeds Lock returns the
\* already-running error, when it fails Lock goes on to write the file
LockRead(p) ==
    /\ ppc[p] = "read"
    /\ \/ /\ lockFile # 0
          /\ ppc' = [ppc EXCEPT ![p] = "failed"]
       \/ ppc' = [ppc EXCEPT ![p] = "write"]
    /\ UNCHANGED << lockFile, isLocked, acquired, reloadAttempts, sigpc, xpc,
                    flowVars, menuVars, batchVars, scorerVars, configVars, spinnerVars >>

\* Lock: os.WriteFile(lockFile, pid), isLocked = true; or the write fails
\* and Lock returns its error
LockWrite(p) ==
    /\ ppc[p] = "write"
    /\ \/ /\ lockFile' = p
          /\ isLocked' = [isLocked EXCEPT ![p] = TRUE]
          /\ acquired' = [acquired EXCEPT ![p] = TRUE]
          /\ ppc' = [ppc EXCEPT ![p] = "load"]
       \/ /\ ppc' = [ppc EXCEPT ![p] = "failed"]
          /\ UNCHANGED << lockFile, isLocked, acquired >>
    /\ UNCHANGED << reloadAttempts, sigpc, xpc,
                    flowVars, menuVars, batchVars, scorerVars, configVars, spinnerVars >>

\* main after Lock has returned an error and released psm.mutex:
\* printError, os.Exit(1)
LockFailed(p) ==
    /\ ppc[p] = "failed"
    /\ Exits(p)
    /\ UNCHANGED << lockFile, isLocked, acquired, reloadAttempts, sigpc, xpc,
                    flowVars, menuVars, batchVars, scorerVars, configVars, spinnerVars >>

\* main: the configuration is loaded and the main loop entered, or the
\* load fails and main calls os.Exit(1)
StartupLoad(p) ==
    /\ ppc[p] = "load"
    /\ \/ ppc' = [ppc EXCEPT ![p] = "menu"]
       \/ Exits(p)
    /\ UNCHANGED << lockFile, isLocked, acquired, reloadAttempts, sigpc, xpc,
                    flowVars, menuVars, batchVars, scorerVars, configVars, spinnerVars >>

\* choice "0": main returns and the deferred Unlock runs
Quit(p) ==
    /\ ppc[p] = "menu"
    /\ Unlock(p)
    /\ ppc' = [ppc EXCEPT ![p] = "return"]
    /\ UNCHANGED << acquired, reloadAttempts, sigpc, xpc,
                    flowVars, menuVars, batchVars, scorerVars, configVars, spinnerVars >>

\* main has returned: the process ends
QuitExit(p) ==
    /\ ppc[p] = "return"
    /\ Exits(p)
    /\ UNCHANGED << lockFile, isLocked, acquired, reloadAttempts, sigpc, xpc,
                    flowVars, menuVars, batchVars, scorerVars, configVars, spinnerVars >>

\* the signal goroutine receives SIGINT or SIGTERM and calls Unlock, which
\* waits for psm.mutex while main is inside Lock
Signal(p) ==
    /\ Running(p)
    /\ sigpc[p] = "wait"
    /\ ~InLock(p)
    /\ Unlock(p)
    /\ sigpc' = [sigpc EXCEPT ![p] = "remove"]
    /\ UNCHANGED << ppc, acquired, reloadAttempts, xpc,
                    flowVars, menuVars, batchVars, scorerVars, configVars, spinnerVars >>

\* the signal goroutine: os.Remove(LOCK_FILE)
SignalRemove(p) ==
    /\ Running(p)
    /\ sigpc[p] = "remove"
    /\ RemoveLockFile
    /\ sigpc' = [sigpc EXCEPT ![p] = "exit"]
    /\ UNCHANGED << ppc, isLocked, acquired, reloadAttempts, xpc,
                    flowVars, menuVars, batchVars, scorerVars, configVars, spinnerVars >>

\* the signal goroutine: os.Exit(0)
SignalExit(p) ==
    /\ Running(p)
    /\ sigpc[p] = "exit"
    /\ Exits(p)
    /\ UNCHANGED << lockFile, isLocked, acquired, reloadAttempts, sigpc, xpc,
                    flowVars, menuVars, batchVars, scorerVars, configVars, spinnerVars >>

\* the watcher and its timer run from the start of the main loop on
Watching(p) == ppc[p] \in {"menu", "return"}

\* callback c of the watcher's timer, LoadConfig failed: reloadAttempts++,
\* which is lost when a callback running at the same time overwrites it
\* (the counter is shared with no lock), and the test against
\* maxReloadAttempts
ReloadFails(p, c) ==
    /\ Watching(p)
    /\ xpc[p][c] = "idle"
    /\ \E counted \in {reloadAttempts[p], reloadAttempts[p] + 1} :
         /\ reloadAttempts' = [reloadAttempts EXCEPT ![p] = counted]
         /\ xpc' = [xpc EXCEPT ![p][c] =
                       IF counted >= MaxReloadAttempts THEN "unlock" ELSE "idle"]
    /\ UNCHANGED << lockFile, ppc, isLocked, acquired, sigpc,
                    flowVars, menuVars, batchVars, scorerVars, configVars, spinnerVars >>

\* that callback: safetyManager.Unlock()
ReloadUnlock(p, c) ==
    /\ Running(p)
    /\ xpc[p][c] = "unlock"
    /\ Unlock(p)
    /\ xpc' = [xpc EXCEPT ![p][c] = "remove"]
    /\ UNCHANGED << ppc, acquired, reloadAttempts, sigpc,
                    flowVars, menuVars, batchVars, scorerVars, configVars, spinnerVars >>

\* that callback: os.Remove(LOCK_FILE)
ReloadRemove(p, c) ==
    /\ Running(p)
    /\ xpc[p][c] = "remove"
    /\ RemoveLockFile
    /\ xpc' = [xpc EXCEPT ![p][c] = "exit"]
    /\ UNCHANGED << ppc, isLocked, acquired, reloadAttempts, sigpc,
                    flowVars, menuVars, batchVars, scorerVars, configVars, spinnerVars >>

\* that callback: os.Exit(1)
ReloadExit(p, c) ==
    /\ Running(p)
    /\ xpc[p][c] = "exit"
    /\ Exits(p)
    /\ UNCHANGED << lockFile, isLocked, acquired, reloadAttempts, sigpc, xpc,
                    flowVars, menuVars, batchVars, scorerVars, configVars, spinnerVars >>

\* callback c of the watcher's timer, LoadConfig succeeded:
\* reloadAttempts = 0, which is lost when a callback running at the same
\* time overwrites it
ReloadSucceeds(p, c) ==
    /\ Watching(p)
    /\ xpc[p][c] = "idle"
    /\ reloadAttempts[p] > 0
    /\ \E kept \in {0, reloadAttempts[p]} :
         reloadAttempts' = [reloadAttempts EXCEPT ![p] = kept]
    /\ UNCHANGED << lockFile, ppc, isLocked, acquired, sigpc, xpc,
                    flowVars, menuVars, batchVars, scorerVars, configVars, spinnerVars >>

NextProcess ==
    \/ \E p \in Procs : ProcStart(p)
    \/ \E p \in Procs : LockStat(p)
    \/ \E p \in Procs : LockRead(p)
    \/ \E p \in Procs : LockWrite(p)
    \/ \E p \in Procs : LockFailed(p)
    \/ \E p \in Procs : StartupLoad(p)
    \/ \E p \in Procs : Quit(p)
    \/ \E p \in Procs : QuitExit(p)
    \/ \E p \in Procs : Signal(p)
    \/ \E p \in Procs : SignalRemove(p)
    \/ \E p \in Procs : SignalExit(p)
    \/ \E p \in Procs, c \in Callbacks : ReloadFails(p, c)
    \/ \E p \in Procs, c \in Callbacks : ReloadUnlock(p, c)
    \/ \E p \in Procs, c \in Callbacks : ReloadRemove(p, c)
    \/ \E p \in Procs, c \in Callbacks : ReloadExit(p, c)
    \/ \E p \in Procs, c \in Callbacks : ReloadSucceeds(p, c)

SpecProcess == ProcessInit /\ [][NextProcess]_vars

\* ========================================================= batch creation
\* An email is named by the index of the label it was created for; 0 names
\* the empty string of a zero-value result. An error is named the same way,
\* 0 naming the error about the count.

\* count and config.MaxConcurrency of the calls explored
BatchCounts == -1..MaxCount
BatchConcurrencies == -1..(MaxCount + 1)

BatchInit ==
    /\ bCount \in BatchCounts
    /\ bMaxConc \in BatchConcurrencies
    /\ BatchStart
    /\ FlowIdle
    /\ ProcessIdle
    /\ MenuIdle
    /\ ScorerIdle
    /\ ConfigIdle
    /\ SpinnerIdle

\* concurrency: 1 when max_concurrency <= 0, at most count
ConcurrencyOf(maxConc, count) ==
    IF maxConc <= 0 THEN 1 ELSE IF maxConc > count THEN count ELSE maxConc

\* batchGenerate up to the choice of the mode
BatchEnter ==
    /\ bpc = "start"
    /\ IF bCount <= 0
       THEN /\ bErrs' = << 0 >>
            /\ bpc' = "done"
            /\ UNCHANGED bLimit
       ELSE /\ bLimit' = ConcurrencyOf(bMaxConc, bCount)
            /\ bpc' = IF ConcurrencyOf(bMaxConc, bCount) > 1 THEN "launch" ELSE "serial"
            /\ UNCHANGED bErrs
    /\ UNCHANGED << bCount, bMaxConc, bI, bwpc, bwres, bSem, bChan,
                    bClosed, bWg, bcpc, bResults, bEmails, bCalls,
                    bSaved, flowVars, processVars, menuVars, scorerVars, configVars, spinnerVars >>

\* one iteration of the serial loop: createHME(label i+1), and the error is
\* appended, or the email is and saveEmailToFile writes it or fails
SerialCreate ==
    /\ bpc = "serial"
    /\ bI < bCount
    /\ bCalls' = Append(bCalls, bI + 1)
    /\ \E ok \in BOOLEAN :
         IF ok
         THEN /\ bEmails' = Append(bEmails, bI + 1)
              /\ \E written \in BOOLEAN :
                   bSaved' = IF written THEN Append(bSaved, bI + 1) ELSE bSaved
              /\ UNCHANGED bErrs
         ELSE /\ bErrs' = Append(bErrs, bI + 1)
              /\ UNCHANGED << bEmails, bSaved >>
    /\ bI' = bI + 1
    /\ UNCHANGED << bCount, bMaxConc, bpc, bLimit, bwpc, bwres, bSem,
                    bChan, bClosed, bWg, bcpc, bResults,
                    flowVars, processVars, menuVars, scorerVars, configVars, spinnerVars >>

\* the serial loop is over
SerialEnd ==
    /\ bpc = "serial"
    /\ bI >= bCount
    /\ bpc' = "done"
    /\ UNCHANGED << bCount, bMaxConc, bLimit, bI, bwpc, bwres, bSem,
                    bChan, bClosed, bWg, bcpc, bResults, bEmails,
                    bErrs, bCalls,
                    bSaved, flowVars, processVars, menuVars, scorerVars, configVars, spinnerVars >>

\* batchGenerateConcurrent, one iteration of the launch loop: wg.Add(1)
\* and go func(index)
BatchLaunch ==
    /\ bpc = "launch"
    /\ bI < bCount
    /\ bWg' = bWg + 1
    /\ bwpc' = [bwpc EXCEPT ![bI + 1] = "acquire"]
    /\ bI' = bI + 1
    /\ UNCHANGED << bCount, bMaxConc, bpc, bLimit, bwres, bSem,
                    bChan, bClosed, bcpc, bResults, bEmails, bErrs,
                    bCalls,
                    bSaved, flowVars, processVars, menuVars, scorerVars, configVars, spinnerVars >>

\* the launch loop is over: the closing goroutine is started
BatchLaunchCloser ==
    /\ bpc = "launch"
    /\ bI >= bCount
    /\ bcpc' = "wait"
    /\ bpc' = "collect"
    /\ UNCHANGED << bCount, bMaxConc, bLimit, bI, bwpc, bwres, bSem,
                    bChan, bClosed, bWg, bResults, bEmails, bErrs,
                    bCalls,
                    bSaved, flowVars, processVars, menuVars, scorerVars, configVars, spinnerVars >>

\* variant: the semaphore is not looked at
SemaphoreHasRoom_Always(tokens, limit) == TRUE

\* a send on the semaphore channel goes through when it holds fewer than
\* concurrency tokens
SemaphoreHasRoom(tokens, limit) == tokens < limit

\* goroutine k: semaphore <- struct{}{}
Acquire(k) ==
    /\ bwpc[k] = "acquire"
    /\ SemaphoreHasRoom(bSem, bLimit)
    /\ bSem' = bSem + 1
    /\ bwpc' = [bwpc EXCEPT ![k] = "create"]
    /\ UNCHANGED << bCount, bMaxConc, bpc, bLimit, bI, bwres, bChan,
                    bClosed, bWg, bcpc, bResults, bEmails, bErrs,
                    bCalls,
                    bSaved, flowVars, processVars, menuVars, scorerVars, configVars, spinnerVars >>

\* goroutine k: createHME(config, label k) returns an email or an error
Create(k) ==
    /\ bwpc[k] = "create"
    /\ bCalls' = Append(bCalls, k)
    /\ \E ok \in BOOLEAN : bwres' = [bwres EXCEPT ![k] = BatchResult(k, ok)]
    /\ bwpc' = [bwpc EXCEPT ![k] = "send"]
    /\ UNCHANGED << bCount, bMaxConc, bpc, bLimit, bI, bSem, bChan,
                    bClosed, bWg, bcpc, bResults, bEmails, bErrs,
                    bSaved, flowVars, processVars, menuVars, scorerVars, configVars, spinnerVars >>

\* goroutine k: resultChan <- result; the channel holds count results
BatchSend(k) ==
    /\ bwpc[k] = "send"
    /\ Len(bChan) < bCount
    /\ bClosed = 0
    /\ bChan' = Append(bChan, bwres[k])
    /\ bwpc' = [bwpc EXCEPT ![k] = "release"]
    /\ UNCHANGED << bCount, bMaxConc, bpc, bLimit, bI, bwres, bSem,
                    bClosed, bWg, bcpc, bResults, bEmails, bErrs,
                    bCalls,
                    bSaved, flowVars, processVars, menuVars, scorerVars, configVars, spinnerVars >>

\* goroutine k: the progress line and the delay, then the deferred
\* <-semaphore
Release(k) ==
    /\ bwpc[k] = "release"
    /\ bSem' = bSem - 1
    /\ bwpc' = [bwpc EXCEPT ![k] = "exit"]
    /\ UNCHANGED << bCount, bMaxConc, bpc, bLimit, bI, bwres, bChan,
                    bClosed, bWg, bcpc, bResults, bEmails, bErrs,
                    bCalls,
                    bSaved, flowVars, processVars, menuVars, scorerVars, configVars, spinnerVars >>

\* goroutine k: the deferred wg.Done()
BatchWorkerDone(k) ==
    /\ bwpc[k] = "exit"
    /\ bWg' = bWg - 1
    /\ bwpc' = [bwpc EXCEPT ![k] = "done"]
    /\ UNCHANGED << bCount, bMaxConc, bpc, bLimit, bI, bwres, bSem,
                    bChan, bClosed, bcpc, bResults, bEmails, bErrs,
                    bCalls,
                    bSaved, flowVars, processVars, menuVars, scorerVars, configVars, spinnerVars >>

\* closing goroutine: wg.Wait()
BatchCloserWait ==
    /\ bcpc = "wait"
    /\ bWg = 0
    /\ bcpc' = "close"
    /\ UNCHANGED << bCount, bMaxConc, bpc, bLimit, bI, bwpc, bwres,
                    bSem, bChan, bClosed, bWg, bResults, bEmails,
                    bErrs, bCalls,
                    bSaved, flowVars, processVars, menuVars, scorerVars, configVars, spinnerVars >>

\* closing goroutine: close(resultChan)
BatchCloserClose ==
    /\ bcpc = "close"
    /\ bClosed' = bClosed + 1
    /\ bcpc' = "done"
    /\ UNCHANGED << bCount, bMaxConc, bpc, bLimit, bI, bwpc, bwres,
                    bSem, bChan, bWg, bResults, bEmails, bErrs,
                    bCalls,
                    bSaved, flowVars, processVars, menuVars, scorerVars, configVars, spinnerVars >>

\* one iteration of "for r := range resultChan"
BatchReceive ==
    /\ bpc = "collect"
    /\ bChan # << >>
    /\ bResults' = Append(bResults, Head(bChan))
    /\ bChan' = Tail(bChan)
    /\ UNCHANGED << bCount, bMaxConc, bpc, bLimit, bI, bwpc, bwres,
                    bSem, bClosed, bWg, bcpc, bEmails, bErrs, bCalls,
                    bSaved, flowVars, processVars, menuVars, scorerVars, configVars, spinnerVars >>

\* variant: the results are kept in the order received
SortedResults_AsReceived(results, count) ==
    [k \in 1..count |-> IF k <= Len(results) THEN results[k] ELSE BatchResult(0, TRUE)]

\* sortedResults[r.index] = r for each result in turn; a slot no result
\* names keeps the zero value, whose err is nil
SortedResults(results, count) ==
    [k \in 1..count |->
        LET at == {j \in 1..Len(results) : results[j].index = k} IN
          IF at = {} THEN BatchResult(0, TRUE)
          ELSE results[CHOOSE j \in at : \A i \in at : i <= j]]

\* the emails, and the errors, of the first n sorted results
RECURSIVE EmailsOf(_, _)
EmailsOf(sorted, n) ==
    IF n = 0 THEN << >>
    ELSE IF sorted[n].ok THEN Append(EmailsOf(sorted, n - 1), sorted[n].index)
    ELSE EmailsOf(sorted, n - 1)
RECURSIVE ErrorsOf(_, _)
ErrorsOf(sorted, n) ==
    IF n = 0 THEN << >>
    ELSE IF sorted[n].ok THEN ErrorsOf(sorted, n - 1)
    ELSE Append(ErrorsOf(sorted, n - 1), sorted[n].index)

\* the range loop ends on the closed and drained channel; the results are
\* placed by index and the emails and the errors extracted in that order,
\* saveEmailToFile writing each email or failing
BatchCollectEnd ==
    /\ bpc = "collect"
    /\ bChan = << >>
    /\ bClosed > 0
    /\ bEmails' = EmailsOf(SortedResults(bResults, bCount), bCount)
    /\ bErrs' = ErrorsOf(SortedResults(bResults, bCount), bCount)
    /\ \E unwritten \in SUBSET (1..bCount) :
         bSaved' = SelectSeq(EmailsOf(SortedResults(bResults, bCount), bCount),
                             LAMBDA e : e \notin unwritten)
    /\ bpc' = "done"
    /\ UNCHANGED << bCount, bMaxConc, bLimit, bI, bwpc, bwres, bSem,
                    bChan, bClosed, bWg, bcpc, bResults, bCalls,
                    flowVars, processVars, menuVars, scorerVars, configVars, spinnerVars >>

NextBatch ==
    \/ BatchEnter
    \/ SerialCreate
    \/ SerialEnd
    \/ BatchLaunch
    \/ BatchLaunchCloser
    \/ \E k \in BatchIndexes : Acquire(k)
    \/ \E k \in BatchIndexes : Create(k)
    \/ \E k \in BatchIndexes : BatchSend(k)
    \/ \E k \in BatchIndexes : Release(k)
    \/ \E k \in BatchIndexes : BatchWorkerDone(k)
    \/ BatchCloserWait
    \/ BatchCloserClose
    \/ BatchReceive
    \/ BatchCollectEnd

\* every goroutine that can take its next step takes it in the end, and
\* every createHME call returns in the end
BatchFairness ==
    /\ WF_vars(BatchEnter)
    /\ WF_vars(SerialCreate)
    /\ WF_vars(SerialEnd)
    /\ WF_vars(BatchLaunch)
    /\ WF_vars(BatchLaunchCloser)
    /\ \A k \in BatchIndexes : WF_vars(Acquire(k))
    /\ \A k \in BatchIndexes : WF_vars(Create(k))
    /\ \A k \in BatchIndexes : WF_vars(BatchSend(k))
    /\ \A k \in BatchIndexes : WF_vars(Release(k))
    /\ \A k \in BatchIndexes : WF_vars(BatchWorkerDone(k))
    /\ WF_vars(BatchCloserWait)
    /\ WF_vars(BatchCloserClose)
    /\ WF_vars(BatchReceive)
    /\ WF_vars(BatchCollectEnd)

SpecBatch == BatchInit /\ [][NextBatch]_vars /\ BatchFairness

\* =================================================================
\* Properties
\* =================================================================
\* the fan-out the configuration asks for
FanOut == IF cfg.MaxRegenerateCount <= 0 THEN 3 ELSE cfg.MaxRegenerateCount
Attempts == 1..FanOut

\* generateSmartEmail has been entered
Entered == pc # "start" /\ label # ""
\* the collection loop of generateSmartEmail is over
Collected == Entered /\ pc \notin {"launch", "collect"}
\* attempt i has run to its end, generateHME call, send and wg.Done included
Completed(i) == wpc[i] = "done"
Succeeded(i) == genCalls[i] > 0 /\ ~wres[i].err
\* the invocation is over, or only the save is left
Settled == Entered /\ pc \in {"save", "done"}

ScoresIn(cands) == {cands[i].Score : i \in 1..Len(cands)}
IdsIn(cands) == {cands[i].ID : i \in 1..Len(cands)}
EmailsIn(cands) == {cands[i].Email : i \in 1..Len(cands)}
MaxOf(set) == CHOOSE m \in set : \A x \in set : x <= m

\* C1: no reserveHME call starts (and the selection stage is not entered)
\* before every one of the launched generation attempts has completed.
C1_ReserveAfterAllAttempts ==
    (Len(reserveCalls) > 0 \/ (Entered /\ pc \in {"decide", "handle", "select", "manualReserve", "save"}))
        => \A i \in Attempts : Completed(i)

\* a reserve call made after three attempts of which one failed
C1_Witness ==
    /\ Len(reserveCalls) > 0
    /\ FanOut = 3
    /\ \E i \in Attempts : wres[i].err
    /\ \E i \in Attempts : ~wres[i].err

\* C2: one invocation calls reserveHME at most once, on every path.
C2_AtMostOneReserve == Len(reserveCalls) <= 1

\* a finished invocation whose single reserve call came from the manual path
C2_Witness ==
    /\ pc = "done"
    /\ outcome = "success"
    /\ Len(reserveCalls) = 1
    /\ reserveCalls[1].by = "manual"

\* C3: exactly N attempts with ids 1..N are launched, each calls generateHME
\* once; when collection ends the candidates are exactly the successful
\* attempts, one each, total_tries is their number, and the id set is 1..N
\* when every attempt succeeded.
C3_CandidatesAreSuccessfulAttempts ==
    /\ Entered => maxTries = FanOut
    /\ \A i \in Workers : genCalls[i] <= 1
    /\ \A i \in Workers \ Attempts : wpc[i] = "unborn" /\ genCalls[i] = 0
    /\ Collected =>
         /\ \A i \in Attempts : genCalls[i] = 1
         /\ \A i \in Attempts :
              Cardinality({k \in 1..Len(candidates) : candidates[k].ID = i})
                 = IF Succeeded(i) THEN 1 ELSE 0
         /\ \A k \in 1..Len(candidates) :
              /\ candidates[k].ID \in Attempts
              /\ candidates[k] = wres[candidates[k].ID].candidate
         /\ Len(candidates) = Cardinality({i \in Attempts : Succeeded(i)})
         /\ (\A i \in Attempts : Succeeded(i)) => IdsIn(candidates) = Attempts
         /\ ~result.isNil =>
              /\ result.Candidates = candidates
              /\ result.TotalTries = Cardinality({i \in Attempts : Succeeded(i)})

\* a result returned after three attempts of which exactly one failed
C3_Witness ==
    /\ ~result.isNil
    /\ FanOut = 3
    /\ result.TotalTries = 2
    /\ Cardinality({i \in Attempts : wres[i].err}) = 1

\* C4: when generateHME fails on all N attempts the invocation ends with the
\* "all attempts failed" error, no result, no reserveHME call and no write
\* to the saved-emails file.
C4_AllAttemptsFailed ==
    (Collected /\ \A i \in Attempts : wres[i].err) =>
        /\ pc \in {"decide", "done"}
        /\ pc = "done" => outcome = "allFailed"
        /\ result.isNil
        /\ reserveCalls = << >>
        /\ savedFile = << >>

\* three attempts, all failed, and the invocation is over
C4_Witness ==
    /\ pc = "done"
    /\ outcome = "allFailed"
    /\ FanOut = 3
    /\ \A i \in Attempts : genCalls[i] = 1 /\ wres[i].err

\* C5: in every returned result best_score is the maximum candidate score.
C5_BestScoreIsMax ==
    ~result.isNil => result.BestScore = MaxOf(ScoresIn(result.Candidates))

\* a result whose best candidate was received before a worse one
C5_Witness ==
    /\ ~result.isNil
    /\ Len(result.Candidates) >= 2
    /\ result.Candidates[1].Score > result.Candidates[2].Score
    /\ result.BestScore = result.Candidates[1].Score

\* C6: the candidates of the result are in ascending sequence_id order.
C6_CandidatesAscending ==
    ~result.isNil =>
        \A k \in 1..(Len(result.Candidates) - 1) :
            result.Candidates[k].ID < result.Candidates[k + 1].ID

\* some reserve call was made without the manual choice prompt, on best_email
CommittedUnprompted ==
    \E k \in 1..Len(reserveCalls) :
        ~reserveCalls[k].prompted /\ reserveCalls[k].hme = bestEmail
ScoreGate == cfg.AutoSelect /\ bestScore >= cfg.MinScore
AutoSelectedFlag ==
    /\ ~result.isNil => (result.AutoSelected <=> ScoreGate)
    /\ (Collected /\ pc # "decide" /\ result.isNil /\ Len(candidates) > 0) =>
          (ScoreGate /\ outcome = "confirmFailed" /\ reserveCalls[1].by = "auto")

\* C7 as stated: with candidates, the best one is committed without a prompt
\* if and only if auto_select holds and best_score >= min_score; the result
\* has auto_selected exactly when the reserve on that path succeeded.
C7_AutoCommitIffGate ==
    /\ (Settled /\ Len(candidates) > 0) => (CommittedUnprompted <=> ScoreGate)
    /\ AutoSelectedFlag

\* C7 amended: with candidates, reserveHME is called on best_email without a
\* prompt if and only if auto_select holds and best_score >= min_score, or
\* allow_manual is off; the result has auto_selected exactly when the score
\* gate held and the reserve made inside generateSmartEmail succeeded.
C7_AutoCommitIffGateOrNoManual ==
    /\ (Settled /\ Len(candidates) > 0) =>
          (CommittedUnprompted <=> (ScoreGate \/ ~cfg.AllowManual))
    /\ AutoSelectedFlag

\* an auto-committed result, and the score gate was met with a margin
C7_Witness ==
    /\ ~result.isNil
    /\ result.AutoSelected
    /\ cfg.MinScore = 70
    /\ bestScore = 85
    /\ reserveCalls[1].by = "auto"
    /\ pc = "done"

\* the email the line typed at the prompt designates
\* ("no candidate" when it designates none)
ChosenEmail ==
    IF input \in {<< >>, AutoWord} THEN result.BestEmail
    ELSE IF ~AtoiOk(input) THEN "no candidate"
    ELSE LET hits == {k \in 1..Len(result.Candidates) :
                         result.Candidates[k].ID = AtoiVal(input)}
         IN IF hits = {} THEN "no candidate"
            ELSE result.Candidates[CHOOSE k \in hits : TRUE].Email

\* C8: when the auto-commit condition fails and allow_manual is on, the flow
\* goes to the manual choice: every reserveHME call is made after the choice
\* was read, and on the email that choice designates.
C8_ManualChoiceBeforeReserve ==
    (Collected /\ pc # "decide" /\ Len(candidates) > 0 /\ ~ScoreGate /\ cfg.AllowManual) =>
        /\ ~result.isNil /\ ~result.AutoSelected
        /\ pc # "handle" => prompted
        /\ \A k \in 1..Len(reserveCalls) :
              /\ reserveCalls[k].prompted
              /\ reserveCalls[k].by = "manual"
              /\ reserveCalls[k].hme = ChosenEmail

\* auto_select on, best score below min_score, a numeric choice reserved
C8_Witness ==
    /\ cfg.AutoSelect /\ cfg.AllowManual
    /\ Len(candidates) > 1
    /\ bestScore = 60 /\ cfg.MinScore = 70
    /\ input = <<"2">>
    /\ Len(reserveCalls) = 1
    /\ reserveCalls[1].hme = result.Candidates[1].Email
    /\ result.Candidates[1].ID = 2

\* C9: with auto_select and allow_manual both off and some candidate, the
\* flow calls reserveHME, without prompting, on the email of a candidate
\* whose score is the maximum score.
C9_FallbackCommitsBest ==
    (Collected /\ pc \notin {"decide", "handle"} /\ Len(candidates) > 0
       /\ ~cfg.AutoSelect /\ ~cfg.AllowManual) =>
        /\ ~prompted
        /\ Len(reserveCalls) = 1
        /\ \E k \in 1..Len(candidates) :
              /\ candidates[k].Score = MaxOf(ScoresIn(candidates))
              /\ reserveCalls[1].hme = candidates[k].Email

\* C10: in manual choice a numeric input k is accepted if and only if a
\* candidate with sequence_id k exists; then reserveHME is called on that
\* candidate's email; a rejected or unparseable input ends the selection
\* with an invalid-selection error and no reserveHME call.
C10_ManualIdAccepted ==
    (prompted /\ pc # "select" /\ input \notin {<< >>, AutoWord}) =>
        IF AtoiOk(input) /\ AtoiVal(input) \in IdsIn(result.Candidates)
        THEN /\ outcome # "invalidSelection"
             /\ selectedEmail = ChosenEmail
             /\ pc # "manualReserve" =>
                   (Len(reserveCalls) = 1 /\ reserveCalls[1].hme = ChosenEmail)
        ELSE /\ outcome = "invalidSelection"
             /\ reserveCalls = << >>

\* the email of the candidate the prompt shows as recommended
RecommendedEmail ==
    EmailOfID(result.Candidates, getBestCandidateID(result.Candidates))

\* C11: in manual choice, an empty line or "auto" selects, and reserveHME is
\* called on, the email of the candidate whose ID getBestCandidateID
\* recommends, for every candidate set.
C11_AcceptBestIsRecommended ==
    (prompted /\ pc # "select" /\ AcceptsBest(input)) =>
        /\ selectedEmail = RecommendedEmail
        /\ pc # "manualReserve" =>
              (Len(reserveCalls) = 1 /\ reserveCalls[1].hme = RecommendedEmail)

\* the invocation ended in success
Success == pc = "done" /\ outcome = "success"

\* C12: on every successful path the alias reported, and the alias saved,
\* is the string the reserveHME call returned.
C12_FinalIsReturnedByReserve ==
    /\ (Settled /\ pc = "save") =>
          /\ Len(reserveReturns) = 1 /\ reserveReturns[1].ok
          /\ finalEmail = reserveReturns[1].hme
    /\ Success =>
          /\ Len(reserveReturns) = 1 /\ reserveReturns[1].ok
          /\ finalEmail = reserveReturns[1].hme
          /\ \A k \in 1..Len(savedFile) :
                savedFile[k].email = reserveReturns[1].hme
          /\ result.AutoSelected => result.BestEmail = reserveReturns[1].hme

\* a fallback commit whose reserveHME returned another address than the one
\* passed, saved to the file
C12_Witness ==
    /\ Success
    /\ reserveCalls[1].by = "fallback"
    /\ reserveCalls[1].hme = "a@icloud.com"
    /\ reserveReturns[1].hme = ServerEmail
    /\ finalEmail = ServerEmail
    /\ Len(savedFile) = 1

\* some reserveHME call failed
ReserveFailed == \E k \in 1..Len(reserveReturns) : ~reserveReturns[k].ok

\* C13: a failed reserveHME call ends the invocation with the confirmation
\* error: no final alias, no result of an automatic commit, nothing saved,
\* and no second reserveHME call.
C13_ReserveFailureIsTerminal ==
    ReserveFailed =>
        /\ pc = "done"
        /\ outcome = "confirmFailed"
        /\ finalEmail = NoEmail
        /\ ~(~result.isNil /\ result.AutoSelected)
        /\ savedFile = << >>
        /\ Len(reserveCalls) = 1
        /\ Len(reserveReturns) = 1

\* a manual choice whose reserveHME call failed, with saving switched on
C13_Witness ==
    /\ ReserveFailed
    /\ reserveCalls[1].by = "manual"
    /\ cfg.SaveGeneratedEmails
    /\ input = <<"1">>
    /\ pc = "done"

\* the scoring call has returned
Scored == qpc = "scored"

\* the address scored splits at "@" into exactly two parts
TwoParts == PartCount(qEmail) = 2

\* C14: for every address and every weights, evaluateEmailQuality returns a
\* score within 0..100, and each of the four sub-scores is within 0..100.
C14_ScoresWithinRange ==
    Scored =>
        /\ qScore \in 0..100
        /\ \A d \in Dimensions : qSub[d] \in 0..100

\* a score made of a readability whose penalties go below zero and of a
\* security whose domain bonus goes above the base score
C14_Witness ==
    /\ Scored
    /\ qEmail = <<"1", "1", "1", "1", "2", "3", "@", "i", "c", "l", "o", "u", "d", ".", "c", "o", "m">>
    /\ qSub.Readability = 0
    /\ qWeights = Weights(100, 100, 100, 100)
    /\ qScore > 0

\* C15: an address without "@", with more than one "@", or with nothing
\* before the "@" scores 0 under every weights.
C15_MalformedScoresZero ==
    (Scored /\ (~TwoParts \/ PrefixOf(qEmail) = << >>)) => qScore = 0

\* weight times sub-score of a dimension that is used, 0 of one that is not
Share(d) == IF qWeights[d] # 0 THEN qSub[d] * qWeights[d] ELSE 0
UsedWeight(d) == IF qWeights[d] # 0 THEN qWeights[d] ELSE 0
ShareSum ==
    Share("PrefixStructure") + Share("Length") + Share("Readability") + Share("Security")
UsedWeightSum ==
    UsedWeight("PrefixStructure") + UsedWeight("Length")
        + UsedWeight("Readability") + UsedWeight("Security")

\* C16: for a two-part address the score is the truncated quotient of the
\* sum of weight times sub-score by the sum of the weights, both taken over
\* the dimensions whose weight is not zero; it is 0 when all weights are zero.
C16_WeightedAverage ==
    (Scored /\ TwoParts) =>
        qScore = IF UsedWeightSum = 0 THEN 0 ELSE ShareSum \div UsedWeightSum

\* weights adding up to 80 with the length left out: (95*40 + 65*25 + 75*15)
\* divided by 80
C16_Witness ==
    /\ Scored
    /\ qEmail = JohnSmith
    /\ qWeights = Weights(40, 0, 25, 15)
    /\ qSub = Weights(95, 95, 65, 75)
    /\ qScore = 81

\* C17 as stated: under any weights "a@b" scores strictly less than
\* "johnsmith@icloud.com".
C17_ShortBelowJohnSmith ==
    (Scored /\ qEmail = JohnSmith) =>
        evaluateEmailQuality(AAtB, qWeights) < qScore

\* C17: under weights of which one at least is not zero "a@b" scores
\* strictly less than "johnsmith@icloud.com"; under all-zero weights both
\* score 0.
C17_ShortBelowJohnSmithUnlessNoWeight ==
    (Scored /\ qEmail = JohnSmith) =>
        IF \A d \in Dimensions : qWeights[d] = 0
        THEN evaluateEmailQuality(AAtB, qWeights) = 0 /\ qScore = 0
        ELSE evaluateEmailQuality(AAtB, qWeights) < qScore

\* the length alone is weighed: 10 against 95
C17_Witness ==
    /\ Scored
    /\ qEmail = JohnSmith
    /\ qWeights = Weights(0, 20, 0, 0)
    /\ qScore = 95
    /\ evaluateEmailQuality(AAtB, qWeights) = 10

\* the provider returned "kettles.doltish@icloud.com" to each of three
\* attempts, the label is "work", every reserveHME call returned the address
\* it was given, and the invocation is over
KettlesScenario ==
    /\ Entered /\ pc = "done"
    /\ label = "work"
    /\ Len(candidates) = 3
    /\ \A k \in 1..3 : candidates[k].Email = "kettles.doltish@icloud.com"
    /\ \A k \in 1..Len(reserveReturns) :
          reserveReturns[k].ok /\ reserveReturns[k].hme = reserveCalls[k].hme

\* C18: with auto_select on, min_score 70, three tries and the weights
\* 40/20/25/15, three attempts returning "kettles.doltish@icloud.com" and a
\* reserveHME that returns its argument, the flow reserves that address
\* under the label without a prompt, and the result has TotalTries 3,
\* AutoSelected true and a BestScore of at least 70.
C18_KettlesAutoCommitted ==
    KettlesScenario =>
        /\ outcome = "success"
        /\ ~prompted
        /\ reserveCalls = << [hme |-> "kettles.doltish@icloud.com", label |-> "work",
                              by |-> "auto", prompted |-> FALSE] >>
        /\ finalEmail = "kettles.doltish@icloud.com"
        /\ ~result.isNil
        /\ result.BestEmail = "kettles.doltish@icloud.com"
        /\ result.TotalTries = 3
        /\ result.AutoSelected
        /\ result.BestScore >= 70
        /\ result.BestScore = evaluateEmailQuality(Kettles, DefaultQuality.Weights)

\* the scenario has run to its end and the address was saved: its score is
\* (80*40 + 55*20 + 65*25 + 75*15) divided by 100, which is 70
C18_Witness ==
    /\ KettlesScenario
    /\ outcome = "success"
    /\ result.BestScore = 70
    /\ cfg.AllowManual
    /\ savedFile = << [email |-> "kettles.doltish@icloud.com", label |-> "work"] >>

\* C19: when config.json sets none of the email_quality options, the
\* configuration LoadConfig returns has auto_select false, min_score 70,
\* max_regenerate_count 3, allow_manual true and the weights 40/20/25/15.
C19_UnsetOptionsGetDefaults ==
    (lpc = "loaded" /\ fileJSON.email_quality = NoQualityKeys) =>
        /\ ~loaded.isNil
        /\ loaded.EmailQuality =
              Quality(FALSE, 70, 3, TRUE, Weights(40, 20, 25, 15))

\* C20: whether the action returns nil, returns an error or panics, when
\* withSpinner returns the animation goroutine has ended, the done channel
\* has been closed exactly once, and a panic has become a non-nil error
\* instead of leaving withSpinner.
C20_SpinnerNeverLeaks ==
    /\ spClosed <= 1
    /\ spMain # "panicked"
    /\ spMain = "returned" =>
          /\ spGo = "exited"
          /\ spWg = 0
          /\ spClosed = 1
          /\ spAction = "panic" => spErr # "nil"
          /\ spAction = "error" => spErr = "actionError"
          /\ spAction = "nil" => spErr = "nil"

\* the action panicked after the animation had gone through all its frames
\* and started over, and withSpinner returned
C20_Witness ==
    /\ spMain = "returned"
    /\ spAction = "panic"
    /\ spErr = "panicError"
    /\ spGo = "exited"
    /\ spIdx > FrameCount
    /\ spFrame = 0

\* the part of the scored address before the "@"
qPrefix == PrefixOf(qEmail)

\* the security sub-score of the scored address when the temporary-email
\* penalty is taken
SecurityWithTempPenalty ==
    Clamp(50 + DomainBonus(DomainOf(qEmail)) - 30
             - (IF hasInfiniteEmailPattern(qPrefix) THEN 25 ELSE 0)
             - (IF countSpecialChars(qPrefix) > 2 THEN 20 ELSE 0))

\* C21: the security sub-score takes the temporary-email penalty of 30 for
\* every prefix of six characters or more of which at least 60% are digits,
\* exactly 60% included.
C21_DigitDensityPenalty ==
    (Scored /\ TwoParts /\ Len(qPrefix) >= 6
       /\ 10 * countDigits(qPrefix) >= 6 * Len(qPrefix)) =>
        qSub.Security = SecurityWithTempPenalty

\* the readability sub-score of the scored address when the looks-random
\* penalty is taken
ReadabilityWithRandomPenalty ==
    Clamp(50 + (IF looksLikeRealWords(qPrefix) THEN 30 ELSE 0)
             - (IF hasExcessiveRepeating(qPrefix) THEN 25 ELSE 0)
             - 30
             + (IF hasGoodVowelConsonantRatio(qPrefix) THEN 15 ELSE 0))

\* more than 80% of the adjacent pairs differ, or a fixed substring occurs
RandomLooking(s) ==
    \/ 5 * Cardinality({i \in 2..Len(s) : s[i] # s[i - 1]}) > 4 * (Len(s) - 1)
    \/ \E p \in { <<"x", "y", "z">>, <<"a", "b", "c">>, <<"1", "2", "3">>,
                  <<"q", "w", "e">>, <<"a", "s", "d">>, <<"z", "x", "c">> } :
          Contains(ToLower(s), p)

\* C22: the readability sub-score takes the looks-random penalty of 30 for
\* every non-empty prefix in which more than 80% of the adjacent pairs
\* differ or which contains one of the fixed substrings, whatever its
\* length, three characters included.
C22_RandomPenaltyAnyLength ==
    (Scored /\ TwoParts /\ qPrefix # << >> /\ RandomLooking(qPrefix)) =>
        qSub.Readability = ReadabilityWithRandomPenalty

\* attempts whose send on resultChan is done
SentBy == {i \in Workers : wpc[i] \in {"exit", "done"}}
\* number of results the collection loop has taken from resultChan
ReceivedCount == Cardinality(SentBy) - Len(resultChan)

\* C23: generateSmartEmail cannot deadlock. When each generateHME call
\* returns, every attempt gets past its send and ends, resultChan is closed
\* once and only after the last send, and the collection loop ends having
\* received one result from each of the N attempts.
C23_CollectionTerminates ==
    /\ [](closeCount <= 1)
    /\ [](chanClosed => (closeCount = 1 /\ SentBy = Attempts))
    /\ []((Entered /\ pc = "decide") =>
            /\ closeCount = 1
            /\ resultChan = << >>
            /\ ReceivedCount = FanOut
            /\ \A i \in Attempts : Completed(i))
    /\ (pc = "launch") ~> (pc = "decide")
    /\ \A i \in Workers : (wpc[i] = "send") ~> (wpc[i] = "done")

\* the collection loop has ended after three attempts, one of which failed,
\* with the channel closed once
C23_Witness ==
    /\ pc = "decide"
    /\ FanOut = 3
    /\ closeCount = 1
    /\ ReceivedCount = 3
    /\ Len(candidates) = 2
    /\ \E i \in Attempts : wres[i].err

\* C24: every reserveHME call of the flow, on the auto-commit path, the
\* manual path and the fallback path, passes the email of one of the
\* candidates generated in the invocation, never "" or another value.
C24_ReserveArgumentIsCandidate ==
    \A k \in 1..Len(reserveCalls) :
        /\ reserveCalls[k].hme # NoEmail
        /\ reserveCalls[k].hme \in EmailsIn(candidates)

\* C25: the quality settings come back from the file as they were saved:
\* after a value the settings menu accepts has been saved, LoadConfig
\* yields the email_quality values the file holds, a weight of 0 and a
\* min_score of 0 included.
C25_SettingsRoundTrip ==
    lpc = "reloaded" =>
        /\ ~loaded.isNil
        /\ loaded.EmailQuality = Unmarshal(fileJSON.email_quality)

\* C26: the configuration main passes to the handlers and globalConfig are
\* the same configuration after every hot reload and every settings save;
\* in particular entry [9] was displayed exactly when the choice of 9 runs
\* the scoring test.
C26_MainAndGlobalConfigAgree ==
    /\ (mpc \in {"show", "prompt", "chosen"} /\ \A c \in Callbacks : rpc[c] = "idle")
           => mainConfig = globalConfig
    /\ mpc = "chosen" /\ ranTest # "none" => (menuShows9 <=> ranTest = "test")

\* instance p runs with a Lock() that returned nil and has not unlocked
Holding(p) == isLocked[p] /\ Running(p)

\* C27: of two instances started in the same directory at most one gets
\* past Lock, for every interleaving of the steps of their Lock calls.
C27_LockMutualExclusion == ~(Holding(1) /\ Holding(2))

\* C28: an instance that acquired the lock has removed the lock file when
\* it has exited, on every exit path, so an instance started afterwards
\* finds no lock file.
C28_LockFileRemovedOnExit ==
    \A p \in Procs :
        (acquired[p] /\ ppc[p] = "exited" /\ \A q \in Procs \ {p} : ppc[q] = "off")
            => lockFile = 0

\* the goroutines inside createHME
InProgress == {k \in BatchIndexes : bwpc[k] = "create"}

\* C29: in concurrent batch creation the limit is max_concurrency clamped
\* to count, and at every moment at most that many createHME calls are in
\* progress, for every interleaving of the worker goroutines.
C29_ConcurrencyLimit ==
    (bpc \in {"launch", "collect", "done"} /\ bLimit > 1) =>
        /\ bMaxConc > 1
        /\ bLimit = (IF bMaxConc > bCount THEN bCount ELSE bMaxConc)
        /\ Cardinality(InProgress) <= bLimit
        /\ bSem <= bLimit

\* two calls in progress under a limit of two while a third goroutine
\* waits for the semaphore
C29_Witness ==
    /\ bCount = 3
    /\ bLimit = 2
    /\ Cardinality(InProgress) = 2
    /\ \E k \in BatchIndexes : bwpc[k] = "acquire"

\* the number of createHME calls made for label k
CallsFor(k) == Cardinality({j \in 1..Len(bCalls) : bCalls[j] = k})

\* the elements of a sequence
Elements(seq) == {seq[j] : j \in 1..Len(seq)}

\* strictly ascending sequence of numbers
Ascending(seq) == \A i, j \in 1..Len(seq) : i < j => seq[i] < seq[j]

\* what batchGenerate has returned, against what it was called with
BatchOutcome ==
    bpc = "done" =>
        IF bCount > 0
        THEN /\ Len(bCalls) = bCount
             /\ \A k \in 1..bCount : CallsFor(k) = 1
             /\ Len(bEmails) + Len(bErrs) = bCount
             /\ Elements(bEmails) \cup Elements(bErrs) = 1..bCount
             /\ Elements(bEmails) \cap Elements(bErrs) = {}
             /\ Ascending(bEmails)
             /\ bLimit > 1 => Elements(bEmails) = {k \in 1..bCount : bwres[k].ok}
        ELSE /\ bErrs = << 0 >>
             /\ bEmails = << >>
             /\ bCalls = << >>

\* C30: for count > 0 batch creation, serial or concurrent, calls createHME
\* once for each label index 1..count, a failed item not stopping it,
\* terminates, and returns one outcome per item, the emails in ascending
\* label-index order whatever the order of completion; for count <= 0 it
\* returns a single error and makes no createHME call.
C30_BatchOneOutcomePerItem ==
    /\ [](BatchOutcome /\ \A k \in BatchIndexes : CallsFor(k) <= 1)
    /\ (bpc = "start") ~> (bpc = "done")

\* a concurrent batch of three whose last item completed first and whose
\* second item failed has returned
C30_Witness ==
    /\ bpc = "done"
    /\ bCount = 3
    /\ bLimit = 2
    /\ bResults # << >>
    /\ bResults[1].index = 3
    /\ bErrs = << 2 >>
    /\ bEmails = << 1, 3 >>

====
